---- MODULE Spec2Model ----
(***************************************************************************)
(* Resilience layer of the multi-chain balance hooks                       *)
(* (src/hooks/useMultiChainBalance.ts) and of the badge image cache        *)
(* (src/unnamed/part_000).                                                 *)
(*                                                                         *)
(* The module holds one state machine per unit of the source; every        *)
(* specification runs one unit and keeps the variables of the others at    *)
(* their idle values:                                                      *)
(*   SpecRetry      executeWithRetry, the hook's and useContract's variant *)
(*   SpecReadBadge  readBadgeBalances over one list of contracts           *)
(*   SpecQuery      the useQuery-based useMultiChainBalance                *)
(*   SpecFetchBabt  fetchMultiChainBABTBalance and fetchCombinedBadgeCount *)
(*   SpecState      the useState-based useMultiChainBalance                *)
(*   SpecHooks      one of the two useMultiChainBalance hooks, either one  *)
(*   SpecRefetches  the useState-based hook, its refetch calls one by one  *)
(*   SpecCache      the badge image cache                                  *)
(*   SpecBadge      useBadgeCache over the badge image cache               *)
(***************************************************************************)
EXTENDS Integers, Sequences, FiniteSets, TLC

\* ------------------------------------------------------------------ bounds
\* Largest balance a contract read returns.
MaxBalance == 1
\* Largest `retries` argument executeWithRetry is called with.
MaxRetries == 4
\* Longest contract list readBadgeBalances is called with.
MaxContracts == 3
\* Number of distinct badge contract addresses a badge listing can name.
MaxAddr == 2
\* Longest badge listing.
MaxBadges == 2

\* ------------------------------------------------------- values and errors
\* JavaScript's null / undefined, where a string (an address) is expected.
Null == "null"

\* `Error | null`: the null of an error slot.
NoError == [name |-> "null"]

\* `bigint | null`: the value v is <<v>>, null is the empty sequence.
NullValue == <<>>
Some(v) == <<v>>

Values == 0..MaxBalance

\* What a remote read can fail with (transport error, contract revert).
ErrorKinds == {"rpc", "revert"}

\* An Error object thrown by the n-th invocation of a reader: two throws are
\* two objects, so the invocation number is part of the identity.
ReadError(kind, n) == [name |-> "ReadError", kind |-> kind, attempt |-> n]

\* new Error(message) thrown by the code itself.
CodeError(message) == [name |-> "Error", message |-> message]

\* A rejection reason that is no Error object (a thrown string).
StringReason == [name |-> "string", text |-> "timeout"]

\* Everything the n-th reader can reject with.
Thrown(n) == {ReadError(kind, n) : kind \in ErrorKinds} \cup {StringReason}

\* error instanceof Error
IsError(e) == e.name \in {"ReadError", "Error"}

\* normalizeError: an Error is kept as it is, anything else is wrapped in a
\* new Error whose message is the string (or its JSON text).
normalizeError(error) == IF IsError(error) THEN error ELSE CodeError(error.text)

\* A promise, as Promise.allSettled reports it once settled.
Fulfilled(v) == [status |-> "fulfilled", value |-> v]
Rejected(e) == [status |-> "rejected", reason |-> e]
Pending == [status |-> "pending"]

AllSettled(results) == \A n \in 1..Len(results) : results[n].status # "pending"

RECURSIVE SumSeq(_)
SumSeq(s) == IF s = <<>> THEN 0 ELSE Head(s) + SumSeq(Tail(s))

\* ------------------------------------------------------------------- state
VARIABLES
    retryVariant,   \* which definition of executeWithRetry runs
    retries,        \* the `retries` argument
    retryI,         \* the loop variable i
    retryPc,        \* "loop" | "call" | "sleep" | "settled"
    retryOutcomes,  \* what each invocation of fn settled with, in order
    retrySleeps,    \* the backoff delays slept so far, in order (ms)
    retryResult     \* what the call settled with; Pending before

VARIABLES
    rbClient,       \* whether the chain's public client exists
    rbContracts,    \* the `contracts` argument: a sequence of addresses
    rbOwner,        \* the `owner` argument, or Null
    rbPc,           \* "start" | "reading" | "settled"
    rbResults,      \* the promise of each contract's read, in issue order
    rbSettleOrder,  \* the indices of the reads in the order they settled
    rbOutcome       \* what the call settled with; Pending before

VARIABLES
    address,        \* the hook's argument: the owner, or Null
    clients,        \* the chains useChainPublicClient returns a client for
    addressBook,    \* the entries BABT_ADDRESSES and BADGE_ADDRESSES hold
    badgeStatus,    \* useBadgeNFT: "loading" | "success" | "error"
    badgeError,     \* useBadgeNFT's error (as thrown), NoError without one
    badgeInsights,  \* useMemo: createBadgeInsights(extractBadges(badgeDataRaw))
    qPc,            \* the query: "idle" | "fetching" | "retry" | "success" | "error"
    qFailureCount,  \* useQuery's count of rejected queryFn runs
    qData,          \* multiChainQuery.data: <<>> (undefined) or <<data>>
    qTasks,         \* the promise of every task's runner, by task key
    qReadsIssued    \* network reads (readContract) issued so far, by task key

VARIABLES
    fbAddressBook,      \* the chains BABT_ADDRESSES holds an address for
    fbPc,               \* "idle" | "bsc" | "bscTestnet" | "settled": the statement reached
    fbPhase,            \* "enter" | "call" | "sleep": where that statement is
    fbI,                \* the loop variable i of the running executeWithRetry
    fbAttempts,         \* what each invocation of each chain's reader settled with
    bscMainnetBalance,  \* the local of that name
    bscTestnetBalance,  \* the local of that name
    fbOutcome,          \* what fetchMultiChainBABTBalance settled with
    combinedCount       \* what fetchCombinedBadgeCount settled with

VARIABLES
    sAddress,       \* the state-based hook's argument: the owner, or Null
    sClients,       \* the chains usePublicClient returns a client for
    sAddressBook,   \* the entries BABT_ADDRESSES and BADGE_ADDRESSES hold
    balanceState,   \* the useState slots bscMainnet, bscTestnet, polygonBadge
    isFetching,     \* the useState slot of that name
    cache,          \* the Map of the module's BalanceCache, by cache key
    now,            \* Date.now(), in ms since the module was loaded
    sPc,            \* "unmounted" | "mounting" | "idle" | "fetching"
    sFetch,         \* the running refetch's fetchContractBalance calls, by source
    refetchCalls,   \* how often refetch() has been called
    runs            \* every refetch() that got past its guard, in call order,
                    \* where the calls are followed one by one (SpecRefetches)

VARIABLES
    keyListings,    \* the badge listings of two renders of the hook, same owner
    queryKeys       \* the queryKey of each render; <<>> before it is built

VARIABLES
    store,          \* the object store 'badges' of BadgeCacheDB: a set of entries
    cacheNow,       \* Date.now(), in ms since the first step
    calls           \* every call of a cache function so far, in call order

VARIABLES
    hMounted,       \* a component using useBadgeCache is mounted
    hMounts,        \* how many times one has been mounted
    badgeId,        \* the hook's argument in the latest render
    data,           \* useState: { id, name, localImageUrl, isCacheHit }
    isLoading,      \* useState
    shouldRefresh,  \* useState
    effectDeps,     \* [badgeId, shouldRefresh] of the last run of the load effect
    effectLoad,     \* the load started by that run (0: none)
    idEffectDep,    \* [badgeId] of the last run of the second effect
    idEffectUrl,    \* data.localImageUrl in the closure of its cleanup
    loads,          \* every call of loadBadge so far
    minted,         \* object URLs created so far
    revoked         \* object URLs revoked so far

queryVars == <<address, clients, addressBook, badgeStatus, badgeError, badgeInsights,
               qPc, qFailureCount, qData, qTasks, qReadsIssued>>

retryVars == <<retryVariant, retries, retryI, retryPc, retryOutcomes, retrySleeps, retryResult>>
rbVars == <<rbClient, rbContracts, rbOwner, rbPc, rbResults, rbSettleOrder, rbOutcome>>
fbVars == <<fbAddressBook, fbPc, fbPhase, fbI, fbAttempts, bscMainnetBalance,
            bscTestnetBalance, fbOutcome, combinedCount>>
stateVars == <<sAddress, sClients, sAddressBook, balanceState, isFetching, cache, now,
               sPc, sFetch, refetchCalls>>

keyVars == <<keyListings, queryKeys>>
cacheVars == <<store, cacheNow, calls>>
runVars == <<runs>>
badgeVars == <<hMounted, hMounts, badgeId, data, isLoading, shouldRefresh, effectDeps,
               effectLoad, idEffectDep, idEffectUrl, loads, minted, revoked>>

vars == <<retryVars, rbVars, queryVars, fbVars, stateVars, keyVars, cacheVars,
          badgeVars, runVars>>

\* What a step of one unit leaves alone: the variables of the other units.
RetryFrame ==
    UNCHANGED <<rbVars, queryVars, fbVars, stateVars, keyVars, cacheVars, badgeVars,
               runVars>>
ReadBadgeFrame ==
    UNCHANGED <<retryVars, queryVars, fbVars, stateVars, keyVars, cacheVars, badgeVars,
               runVars>>
QueryFrame ==
    UNCHANGED <<retryVars, rbVars, fbVars, stateVars, keyVars, cacheVars, badgeVars,
               runVars>>
FetchBabtFrame ==
    UNCHANGED <<retryVars, rbVars, queryVars, stateVars, keyVars, cacheVars, badgeVars,
               runVars>>
StateFrame ==
    UNCHANGED <<retryVars, rbVars, queryVars, fbVars, keyVars, cacheVars, badgeVars,
               runVars>>
CacheFrame ==
    UNCHANGED <<retryVars, rbVars, queryVars, fbVars, stateVars, keyVars, badgeVars,
                runVars>>
BadgeFrame ==
    UNCHANGED <<retryVars, rbVars, queryVars, fbVars, stateVars, keyVars, runVars>>
RefetchesFrame ==
    UNCHANGED <<retryVars, rbVars, queryVars, fbVars, keyVars, cacheVars, badgeVars>>
KeyFrame ==
    UNCHANGED <<retryVars, rbVars, queryVars, fbVars, stateVars, cacheVars, badgeVars,
               runVars>>

\* ============================================================ executeWithRetry
\* Default arguments of both variants.
DEFAULT_RETRIES == 3
DEFAULT_DELAY == 1000

\* The two definitions of executeWithRetry in the source.
RetryVariants == {"hook", "useContract"}

RECURSIVE Pow2(_)
Pow2(n) == IF n = 0 THEN 1 ELSE 2 * Pow2(n - 1)

\* A faulty BackoffDelay, the same delay after every failure: C7 fails with it.
BackoffDelayConstant(variant, delay, i) == delay

\* The backoff slept after the failure of attempt i (0-based):
\* hook: initialDelay * Math.pow(2, i); useContract: delay * (i + 1).
BackoffDelay(variant, delay, i) ==
    IF variant = "hook" THEN delay * Pow2(i) ELSE delay * (i + 1)

\* A faulty IsLastRound, off by one (i === retries): C8 fails with it.
IsLastRoundOffByOne(i, n) == i = n

\* if (i === retries - 1): the round whose failure is rethrown.
IsLastRound(i, n) == i = n - 1

RetryIdle ==
    /\ retryVariant = "hook"
    /\ retries = DEFAULT_RETRIES
    /\ retryI = 0
    /\ retryPc = "idle"
    /\ retryOutcomes = <<>>
    /\ retrySleeps = <<>>
    /\ retryResult = Pending

\* A call of executeWithRetry(fn, retries) with the default delay.
RetryInit ==
    /\ retryVariant \in RetryVariants
    /\ retries \in 0..MaxRetries
    /\ retryI = 0
    /\ retryPc = "loop"
    /\ retryOutcomes = <<>>
    /\ retrySleeps = <<>>
    /\ retryResult = Pending

\* for (let i = 0; i < retries; i++): the loop test; falling out of the loop
\* reaches `throw new Error('Max retries reached')`.
RetryLoopTest ==
    /\ retryPc = "loop"
    /\ IF retryI < retries
         THEN /\ retryPc' = "call"
              /\ retryResult' = retryResult
         ELSE /\ retryPc' = "settled"
              /\ retryResult' = Rejected(CodeError("Max retries reached"))
    /\ UNCHANGED <<retryVariant, retries, retryI, retryOutcomes, retrySleeps>>
    /\ RetryFrame

\* await fn() fulfils: return result.
RetryAttemptOk(v) ==
    /\ retryPc = "call"
    /\ retryOutcomes' = Append(retryOutcomes, Fulfilled(v))
    /\ retryPc' = "settled"
    /\ retryResult' = Fulfilled(v)
    /\ UNCHANGED <<retryVariant, retries, retryI, retrySleeps>>
    /\ RetryFrame

\* await fn() rejects: the catch block rethrows on the last round, and
\* otherwise starts the backoff timer.
RetryAttemptFail(kind) ==
    /\ retryPc = "call"
    /\ LET error == ReadError(kind, Len(retryOutcomes) + 1) IN
         /\ retryOutcomes' = Append(retryOutcomes, Rejected(error))
         /\ IF IsLastRound(retryI, retries)
              THEN /\ retryPc' = "settled"
                   /\ retryResult' = Rejected(error)
              ELSE /\ retryPc' = "sleep"
                   /\ retryResult' = retryResult
    /\ UNCHANGED <<retryVariant, retries, retryI, retrySleeps>>
    /\ RetryFrame

\* The setTimeout of the backoff fires; the loop goes to its next round (i++).
RetryWake ==
    /\ retryPc = "sleep"
    /\ retrySleeps' = Append(retrySleeps, BackoffDelay(retryVariant, DEFAULT_DELAY, retryI))
    /\ retryI' = retryI + 1
    /\ retryPc' = "loop"
    /\ UNCHANGED <<retryVariant, retries, retryOutcomes, retryResult>>
    /\ RetryFrame

RetryNext ==
    \/ RetryLoopTest
    \/ \E v \in Values : RetryAttemptOk(v)
    \/ \E kind \in ErrorKinds : RetryAttemptFail(kind)
    \/ RetryWake

\* ========================================================== readBadgeBalances
\* Contract addresses, as numbers: Array.sort with localeCompare orders the
\* (same-case, same-length) hex strings as it orders the numbers.
Addrs == 1..MaxAddr
ContractIndexes == 1..MaxContracts

\* The strictly increasing sequence of a set: what ensureSortedArray builds
\* from a Set of addresses.
RECURSIVE ensureSortedArray(_)
ensureSortedArray(set) ==
    IF set = {} THEN <<>>
    ELSE LET least == CHOOSE a \in set : \A b \in set : a <= b
         IN <<least>> \o ensureSortedArray(set \ {least})

\* if (!client || !owner || !contracts || !contracts.length); the hook always
\* passes an array (createBadgeInsights fills both chains), so !contracts is
\* never the disjunct that fires.
BadgeGuardFails(client, contracts, owner) ==
    \/ ~client
    \/ owner = Null
    \/ Len(contracts) = 0

\* The results.forEach loop: total, hasSuccess and firstError after the
\* settled results were visited front to back.
\* A faulty BadgeFold that keeps the error of the last failed read, not of
\* the first: C11 fails with it.
RECURSIVE BadgeFoldLastError(_, _)
BadgeFoldLastError(results, acc) ==
    IF results = <<>> THEN acc
    ELSE LET result == Head(results)
             next == IF result.status = "fulfilled"
                       THEN [acc EXCEPT !.hasSuccess = TRUE,
                                        !.total = acc.total + result.value]
                       ELSE [acc EXCEPT !.firstError = normalizeError(result.reason)]
         IN BadgeFoldLastError(Tail(results), next)

RECURSIVE BadgeFold(_, _)
BadgeFold(results, acc) ==
    IF results = <<>> THEN acc
    ELSE LET result == Head(results)
             next == IF result.status = "fulfilled"
                       THEN [acc EXCEPT !.hasSuccess = TRUE,
                                        !.total = acc.total + result.value]
                       ELSE IF acc.firstError = NoError
                              THEN [acc EXCEPT !.firstError = normalizeError(result.reason)]
                              ELSE acc
         IN BadgeFold(Tail(results), next)

\* A faulty BadgeOutcome, Promise.all in place of Promise.allSettled: any
\* failed read rejects the call. C10 fails with it.
BadgeOutcomeFailFast(results) ==
    LET acc == BadgeFold(results, [total |-> 0, hasSuccess |-> FALSE, firstError |-> NoError])
    IN IF acc.firstError # NoError \/ ~acc.hasSuccess
         THEN Rejected(IF acc.firstError # NoError THEN acc.firstError
                       ELSE CodeError("Failed to read badge balances"))
         ELSE Fulfilled(acc.total)

\* What readBadgeBalances settles with once every read has settled.
BadgeOutcome(results) ==
    LET acc == BadgeFold(results, [total |-> 0, hasSuccess |-> FALSE, firstError |-> NoError])
    IN IF ~acc.hasSuccess
         THEN Rejected(IF acc.firstError # NoError THEN acc.firstError
                       ELSE CodeError("Failed to read badge balances"))
         ELSE Fulfilled(acc.total)

MissingForBadgeRead == CodeError("Missing client, owner, or badge contracts for read")

ReadBadgeIdle ==
    /\ rbClient = TRUE
    /\ rbContracts = <<>>
    /\ rbOwner = Null
    /\ rbPc = "idle"
    /\ rbResults = <<>>
    /\ rbSettleOrder = <<>>
    /\ rbOutcome = Pending

\* A call of readBadgeBalances: the lists the hook passes are the sorted
\* arrays of createBadgeInsights (possibly empty).
ReadBadgeInit ==
    /\ rbClient \in BOOLEAN
    /\ rbContracts \in {ensureSortedArray(set) : set \in SUBSET ContractIndexes}
    /\ rbOwner \in {Null, "0xOwner"}
    /\ rbPc = "start"
    /\ rbResults = <<>>
    /\ rbSettleOrder = <<>>
    /\ rbOutcome = Pending

\* The synchronous part: the guard throws, or one read per contract is
\* issued (contracts.map) and the call awaits Promise.allSettled.
ReadBadgeStart ==
    /\ rbPc = "start"
    /\ IF BadgeGuardFails(rbClient, rbContracts, rbOwner)
         THEN /\ rbPc' = "settled"
              /\ rbOutcome' = Rejected(MissingForBadgeRead)
              /\ rbResults' = rbResults
         ELSE /\ rbPc' = "reading"
              /\ rbResults' = [n \in 1..Len(rbContracts) |-> Pending]
              /\ rbOutcome' = rbOutcome
    /\ UNCHANGED <<rbClient, rbContracts, rbOwner, rbSettleOrder>>
    /\ ReadBadgeFrame

\* One read settles; when it was the last one pending, allSettled resolves
\* and the rest of the function runs.
ReadBadgeSettle(n, settled) ==
    /\ rbPc = "reading"
    /\ n \in 1..Len(rbResults)
    /\ rbResults[n].status = "pending"
    /\ rbResults' = [rbResults EXCEPT ![n] = settled]
    /\ rbSettleOrder' = Append(rbSettleOrder, n)
    /\ IF AllSettled(rbResults')
         THEN /\ rbPc' = "settled"
              /\ rbOutcome' = BadgeOutcome(rbResults')
         ELSE UNCHANGED <<rbPc, rbOutcome>>
    /\ UNCHANGED <<rbClient, rbContracts, rbOwner>>
    /\ ReadBadgeFrame

ReadBadgeNext ==
    \/ ReadBadgeStart
    \/ \E n \in ContractIndexes, v \in Values : ReadBadgeSettle(n, Fulfilled(v))
    \/ \E n \in ContractIndexes : \E e \in Thrown(n) : ReadBadgeSettle(n, Rejected(e))

\* ===================================== useMultiChainBalance (useQuery-based)
Chains == {"bsc", "bscTestnet", "polygon"}

\* The chain ids a listed badge can carry: polygon.id, CHAIN_ID.BSC_MAINNET,
\* and a chain the hook does not read.
BadgeChains == {"polygon", "bsc", "other"}

\* badge.contractAddress of a badge that has none (undefined).
NoContract == 0

\* The fallback badge contract on polygon; one of the listable addresses.
BADGE_CONTRACT_ADDRESS == 1

Badges == [chainId : BadgeChains, contractAddress : {NoContract} \cup Addrs]

\* The listings useBadgeNFT can deliver. createBadgeInsights visits a listing
\* with forEach and only adds to two Sets and two counters, so the order of
\* a listing does not reach the hook: one order per listing is drawn, the
\* one by chain and then by address.
BadgeChainRank(chain) ==
    CASE chain = "polygon" -> 0
      [] chain = "bsc" -> 1
      [] chain = "other" -> 2

BadgeBefore(a, b) ==
    \/ BadgeChainRank(a.chainId) < BadgeChainRank(b.chainId)
    \/ /\ a.chainId = b.chainId
       /\ a.contractAddress <= b.contractAddress

BadgeLists ==
    {badges \in UNION {[1..n -> Badges] : n \in 0..MaxBadges} :
        \A n \in 1..(Len(badges) - 1) : BadgeBefore(badges[n], badges[n + 1])}

DEFAULT_ERROR_KEYS ==
    {"babt:bscMainnet", "babt:bscTestnet", "badge:polygon", "badge:bsc", "badge:graphQL"}

TaskKeys == {"babt:bscMainnet", "babt:bscTestnet", "badge:polygon", "badge:bsc"}
BabtKeys == {"babt:bscMainnet", "babt:bscTestnet"}
BadgeKeys == {"badge:polygon", "badge:bsc"}

\* The chain whose client a task reads through.
TaskChain(key) ==
    CASE key = "babt:bscMainnet" -> "bsc"
      [] key = "babt:bscTestnet" -> "bscTestnet"
      [] key = "badge:polygon" -> "polygon"
      [] key = "badge:bsc" -> "bsc"

\* The entry of BABT_ADDRESSES a readBalance task reads.
BookEntry(key) == IF key = "babt:bscMainnet" THEN "babt:bsc" ELSE "babt:bscTestnet"

DEFAULT_BALANCES == [key \in TaskKeys |-> NullValue]
DEFAULT_ERRORS == [key \in DEFAULT_ERROR_KEYS |-> NoError]

\* { ...a, ...b }: b's entries over a's.
Spread(a, b) ==
    [key \in DOMAIN a \cup DOMAIN b |-> IF key \in DOMAIN b THEN b[key] ELSE a[key]]

RECURSIVE CountOn(_, _)
CountOn(badges, chain) ==
    IF badges = <<>> THEN 0
    ELSE (IF Head(badges).chainId = chain THEN 1 ELSE 0) + CountOn(Tail(badges), chain)

\* The Set the forEach loop fills for one chain: `if (contract) set.add(contract)`.
ContractsOn(badges, chain) ==
    {badges[n].contractAddress :
        n \in {m \in 1..Len(badges) : /\ badges[m].chainId = chain
                                      /\ badges[m].contractAddress # NoContract}}

createBadgeInsights(badges) ==
    LET polygonContracts == ensureSortedArray(ContractsOn(badges, "polygon"))
        bscContracts == ensureSortedArray(ContractsOn(badges, "bsc"))
        polygonCount == CountOn(badges, "polygon")
        bscCount == CountOn(badges, "bsc")
    IN [counts |-> [polygon |-> polygonCount, bsc |-> bscCount,
                    total |-> polygonCount + bscCount],
        contracts |-> [polygon |-> IF Len(polygonContracts) = 0
                                     THEN <<BADGE_CONTRACT_ADDRESS>>
                                     ELSE polygonContracts,
                       bsc |-> bscContracts]]

\* A JSON text, as the sequence of its tokens: punctuation and names, and
\* the string of an address.
Sym(s) == [sym |-> s]
AddrToken(a) == [addr |-> a]

\* The items of a JSON array of addresses, separated by commas.
RECURSIVE JsonItems(_)
JsonItems(seq) ==
    IF seq = <<>> THEN <<>>
    ELSE IF Len(seq) = 1 THEN <<AddrToken(seq[1])>>
    ELSE <<AddrToken(Head(seq)), Sym(",")>> \o JsonItems(Tail(seq))

JsonArray(seq) == <<Sym("[")>> \o JsonItems(seq) \o <<Sym("]")>>

\* A faulty buildContractsKey, one array of all the contracts of both
\* chains: C16 fails with it.
buildContractsKeyJoined(contracts) == JsonArray(contracts.polygon \o contracts.bsc)

\* JSON.stringify({ polygon: [...], bsc: [...] }): the text lists the names
\* and the two arrays in this order.
buildContractsKey(contracts) ==
    <<Sym("{"), Sym("polygon"), Sym(":")>> \o JsonArray(contracts.polygon)
        \o <<Sym(","), Sym("bsc"), Sym(":")>> \o JsonArray(contracts.bsc)
        \o <<Sym("}")>>

\* queryKey: ['multi-chain-balance', address, badgeContractsKey]
QueryKey(owner, insights) ==
    <<"multi-chain-balance", owner, buildContractsKey(insights.contracts)>>

\* readBalance's guard: if (!client || !contractAddress || !owner)
BalanceGuardFails(client, contractAddress, owner) ==
    \/ ~client
    \/ ~contractAddress
    \/ owner = Null

MissingForBalanceRead == CodeError("Missing client, contract address, or owner for balance read")

\* The number of contracts a task reads once its guard has passed.
TaskContracts(key, insights) ==
    CASE key = "badge:polygon" -> insights.contracts.polygon
      [] key = "badge:bsc" -> insights.contracts.bsc
      [] OTHER -> <<0>>

TaskGuardFails(key, owner, clientSet, babtSet, insights) ==
    IF key \in BabtKeys
      THEN BalanceGuardFails(TaskChain(key) \in clientSet, BookEntry(key) \in babtSet, owner)
      ELSE BadgeGuardFails(TaskChain(key) \in clientSet, TaskContracts(key, insights), owner)

\* task.runner() up to its first await: the guard has thrown, or the reads
\* are on their way.
RunnerStarted(key, owner, clientSet, babtSet, insights) ==
    IF TaskGuardFails(key, owner, clientSet, babtSet, insights)
      THEN Rejected(IF key \in BabtKeys THEN MissingForBalanceRead ELSE MissingForBadgeRead)
      ELSE Pending

\* A faulty JoinTasks, Promise.all in place of Promise.allSettled: a rejected
\* task rejects the join. C1 fails with it.
JoinTasksFailFast(tasks) ==
    IF \E key \in DOMAIN tasks : tasks[key].status = "rejected"
      THEN Rejected((tasks[CHOOSE key \in DOMAIN tasks : tasks[key].status = "rejected"]).reason)
      ELSE Fulfilled(tasks)

\* Promise.allSettled(tasks.map(...)): fulfils with every task's outcome.
JoinTasks(tasks) == Fulfilled(tasks)

\* A faulty QueryFnData that stores a rejection under every task's key, not
\* only the failing one's. C5 fails with it.
QueryFnDataSharedError(settled) ==
    [balances |-> [key \in DOMAIN settled |->
                     IF settled[key].status = "fulfilled"
                       THEN <<settled[key].value>> ELSE <<>>],
     errors |-> [key \in DOMAIN settled \cup {"badge:graphQL"} |->
                   IF \E k \in DOMAIN settled : settled[k].status = "rejected"
                     THEN normalizeError(
                            (settled[CHOOSE k \in DOMAIN settled :
                                       settled[k].status = "rejected"]).reason)
                     ELSE NoError]]

\* The settled.forEach loop of queryFn: a fulfilled task assigns its value,
\* a rejected one stores its normalized reason under its key.
QueryFnData(settled) ==
    [balances |-> [key \in TaskKeys |->
                     IF settled[key].status = "fulfilled"
                       THEN Some(settled[key].value) ELSE DEFAULT_BALANCES[key]],
     errors |-> Spread(DEFAULT_ERRORS,
                       [key \in {k \in TaskKeys : settled[k].status = "rejected"} |->
                          normalizeError(settled[key].reason)])]

\* retry: 3 of the useQuery options.
QUERY_RETRY == 3

NoTasks == [key \in TaskKeys |-> Pending]
NoReads == [key \in TaskKeys |-> 0]

QueryIdle ==
    /\ address = Null
    /\ clients = {}
    /\ addressBook = {}
    /\ badgeStatus = "idle"
    /\ badgeError = NoError
    /\ badgeInsights = createBadgeInsights(<<>>)
    /\ qPc = "unmounted"
    /\ qFailureCount = 0
    /\ qData = <<>>
    /\ qTasks = NoTasks
    /\ qReadsIssued = NoReads

\* The hook has been mounted: the badge listing is loading (its data is
\* undefined, which extractBadges turns into []), the query has no data.
QueryInit ==
    /\ address \in {Null, "0xOwner"}
    /\ clients \in SUBSET Chains
    /\ addressBook \in SUBSET {"babt:bsc", "babt:bscTestnet"}
    /\ badgeStatus = "loading"
    /\ badgeError = NoError
    /\ badgeInsights = createBadgeInsights(<<>>)
    /\ qPc = "idle"
    /\ qFailureCount = 0
    /\ qData = <<>>
    /\ qTasks = NoTasks
    /\ qReadsIssued = NoReads

\* A change of the query key makes useQuery observe another query, one that
\* has no data yet; the run of the old key no longer reaches this hook.
QueryKeyChanged(insights) ==
    buildContractsKey(insights.contracts) # buildContractsKey(badgeInsights.contracts)

\* useBadgeNFT settles with a listing.
BadgeListingLoaded(badges) ==
    /\ badgeStatus = "loading"
    /\ badgeStatus' = "success"
    /\ badgeInsights' = createBadgeInsights(badges)
    /\ IF QueryKeyChanged(badgeInsights')
         THEN /\ qPc' = "idle"
              /\ qFailureCount' = 0
              /\ qData' = <<>>
              /\ qTasks' = NoTasks
              /\ qReadsIssued' = NoReads
         ELSE UNCHANGED <<qPc, qFailureCount, qData, qTasks, qReadsIssued>>
    /\ UNCHANGED <<address, clients, addressBook, badgeError>>
    /\ QueryFrame

\* useBadgeNFT fails: its data stays undefined.
BadgeListingFailed(reason) ==
    /\ badgeStatus = "loading"
    /\ badgeStatus' = "error"
    /\ badgeError' = reason
    /\ UNCHANGED <<address, clients, addressBook, badgeInsights,
                   qPc, qFailureCount, qData, qTasks, qReadsIssued>>
    /\ QueryFrame

\* queryFn is called: by the observer of an enabled query without data, by
\* refetch() (which also runs a disabled query), or by useQuery's retry.
\* Without an address it returns the defaults; otherwise it builds the four
\* tasks, starts every runner and awaits Promise.allSettled.
QueryFnStart ==
    /\ qPc \in {"idle", "retry"}
    /\ IF address = Null
         THEN /\ qPc' = "success"
              /\ qData' = <<[balances |-> DEFAULT_BALANCES, errors |-> DEFAULT_ERRORS]>>
              /\ UNCHANGED <<qTasks, qReadsIssued>>
         ELSE /\ qPc' = "fetching"
              /\ qTasks' = [key \in TaskKeys |->
                              RunnerStarted(key, address, clients, addressBook, badgeInsights)]
              /\ qReadsIssued' = [key \in TaskKeys |->
                    qReadsIssued[key] +
                      IF TaskGuardFails(key, address, clients, addressBook, badgeInsights)
                        THEN 0 ELSE Len(TaskContracts(key, badgeInsights))]
              /\ qData' = qData
    /\ UNCHANGED <<address, clients, addressBook, badgeStatus, badgeError,
                   badgeInsights, qFailureCount>>
    /\ QueryFrame

\* The readContract call of a readBalance task settles, and with it the task.
BalanceTaskSettle(key, settled) ==
    /\ qPc = "fetching"
    /\ key \in BabtKeys
    /\ qTasks[key].status = "pending"
    /\ qTasks' = [qTasks EXCEPT ![key] = settled]
    /\ UNCHANGED <<address, clients, addressBook, badgeStatus, badgeError,
                   badgeInsights, qPc, qFailureCount, qData, qReadsIssued>>
    /\ QueryFrame

\* The reads of a readBadgeBalances task have all settled (results, in issue
\* order), and the task settles with what the function makes of them.
BadgeTaskSettle(key, results) ==
    /\ qPc = "fetching"
    /\ key \in BadgeKeys
    /\ qTasks[key].status = "pending"
    /\ Len(results) = Len(TaskContracts(key, badgeInsights))
    /\ qTasks' = [qTasks EXCEPT ![key] = BadgeOutcome(results)]
    /\ UNCHANGED <<address, clients, addressBook, badgeStatus, badgeError,
                   badgeInsights, qPc, qFailureCount, qData, qReadsIssued>>
    /\ QueryFrame

\* Every runner has settled: the await returns and queryFn builds its
\* result. If queryFn rejected, useQuery would run it again, up to
\* QUERY_RETRY times, before it stores the error.
QueryFnSettle ==
    /\ qPc = "fetching"
    /\ \A key \in TaskKeys : qTasks[key].status # "pending"
    /\ LET joined == JoinTasks(qTasks) IN
         IF joined.status = "fulfilled"
           THEN /\ qPc' = "success"
                /\ qData' = <<QueryFnData(joined.value)>>
                /\ qFailureCount' = 0
           ELSE /\ qPc' = IF qFailureCount < QUERY_RETRY THEN "retry" ELSE "error"
                /\ qFailureCount' = qFailureCount + 1
                /\ qData' = qData
    /\ UNCHANGED <<address, clients, addressBook, badgeStatus, badgeError,
                   badgeInsights, qTasks, qReadsIssued>>
    /\ QueryFrame

\* The settled reads a contract list of length n can produce.
SettledReads(n) ==
    {results \in [1..n -> {Fulfilled(v) : v \in Values}
                          \cup {Rejected(ReadError("rpc", m)) : m \in 1..n}
                          \cup {Rejected(StringReason)}] :
        \A m \in 1..n :
            (results[m].status = "rejected" /\ IsError(results[m].reason))
                => results[m].reason.attempt = m}

QueryNext ==
    \/ \E badges \in BadgeLists : BadgeListingLoaded(badges)
    \/ \E reason \in Thrown(1) : BadgeListingFailed(reason)
    \/ QueryFnStart
    \/ \E key \in BabtKeys, v \in Values : BalanceTaskSettle(key, Fulfilled(v))
    \/ \E key \in BabtKeys, e \in Thrown(1) : BalanceTaskSettle(key, Rejected(e))
    \/ \E key \in BadgeKeys, n \in 1..MaxAddr :
         \E results \in SettledReads(n) : BadgeTaskSettle(key, results)
    \/ QueryFnSettle

\* A faulty combinedErrors without the `...DEFAULT_ERRORS` spread: C3 fails
\* with it.
combinedErrorsWithoutDefaults ==
    Spread(IF qData = <<>> THEN <<>> ELSE qData[1].errors,
           [key \in {"badge:graphQL"} |->
              IF badgeError # NoError THEN normalizeError(badgeError) ELSE NoError])

\* What the hook returns to its caller.
combinedErrors ==
    Spread(Spread(DEFAULT_ERRORS, IF qData = <<>> THEN <<>> ELSE qData[1].errors),
           [key \in {"badge:graphQL"} |->
              IF badgeError # NoError THEN normalizeError(badgeError) ELSE NoError])

HookBalances == IF qData = <<>> THEN DEFAULT_BALANCES ELSE qData[1].balances

\* ------------------------------------------------------------ the query key
KeyIdle ==
    /\ keyListings = <<>>
    /\ queryKeys = <<>>

\* Two renders of the hook for one owner, each with the listing useBadgeNFT
\* gave it.
KeyInit ==
    /\ keyListings \in BadgeLists \X BadgeLists
    /\ queryKeys = <<<<>>, <<>>>>

\* A render builds its query key: the useMemo of badgeInsights, the useMemo
\* of badgeContractsKey, and the queryKey of the useQuery options.
KeyRender(n) ==
    /\ n \in 1..Len(queryKeys)
    /\ queryKeys[n] = <<>>
    /\ queryKeys' = [queryKeys EXCEPT
                       ![n] = QueryKey("0xOwner", createBadgeInsights(keyListings[n]))]
    /\ UNCHANGED keyListings
    /\ KeyFrame

KeyNext == \E n \in 1..2 : KeyRender(n)

\* ================================================ fetchMultiChainBABTBalance
\* The chains the function reads, in the order of its statements.
BabtChains == {"bsc", "bscTestnet"}

FbNoAttempts == [chain \in BabtChains |-> <<>>]

FetchBabtIdle ==
    /\ fbAddressBook = {}
    /\ fbPc = "idle"
    /\ fbPhase = "enter"
    /\ fbI = 0
    /\ fbAttempts = FbNoAttempts
    /\ bscMainnetBalance = 0
    /\ bscTestnetBalance = 0
    /\ fbOutcome = Pending
    /\ combinedCount = Pending

\* fetchCombinedBadgeCount(address) has called fetchMultiChainBABTBalance,
\* which has initialised its locals and stands before the mainnet statement.
FetchBabtInit ==
    /\ fbAddressBook \in SUBSET BabtChains
    /\ fbPc = "bsc"
    /\ fbPhase = "enter"
    /\ fbI = 0
    /\ fbAttempts = FbNoAttempts
    /\ bscMainnetBalance = 0
    /\ bscTestnetBalance = 0
    /\ fbOutcome = Pending
    /\ combinedCount = Pending

\* The statement of fbPc is done with the locals at (mainnet, testnet): go on
\* to the testnet statement or, after it, leave the try block, return both
\* locals, and let the caller return their sum.
FbAdvance(mainnet, testnet) ==
    /\ bscMainnetBalance' = mainnet
    /\ bscTestnetBalance' = testnet
    /\ fbPhase' = "enter"
    /\ fbI' = 0
    /\ IF fbPc = "bsc"
         THEN /\ fbPc' = "bscTestnet"
              /\ UNCHANGED <<fbOutcome, combinedCount>>
         ELSE /\ fbPc' = "settled"
              /\ fbOutcome' = Fulfilled([bscMainnet |-> mainnet, bscTestnet |-> testnet])
              /\ combinedCount' = Fulfilled(mainnet + testnet)

\* if (BABT_ADDRESSES[chain]): with an address, call executeWithRetry, whose
\* first round invokes the reader; without one, skip the statement.
FbEnter ==
    /\ fbPc \in BabtChains
    /\ fbPhase = "enter"
    /\ IF fbPc \in fbAddressBook
         THEN /\ fbPhase' = "call"
              /\ fbI' = 0
              /\ UNCHANGED <<fbPc, bscMainnetBalance, bscTestnetBalance,
                             fbOutcome, combinedCount>>
         ELSE FbAdvance(bscMainnetBalance, bscTestnetBalance)
    /\ UNCHANGED <<fbAddressBook, fbAttempts>>
    /\ FetchBabtFrame

\* The reader fulfils: executeWithRetry returns and the local is assigned.
FbAttemptOk(v) ==
    /\ fbPc \in BabtChains
    /\ fbPhase = "call"
    /\ fbAttempts' = [fbAttempts EXCEPT ![fbPc] = Append(@, Fulfilled(v))]
    /\ FbAdvance(IF fbPc = "bsc" THEN v ELSE bscMainnetBalance,
                 IF fbPc = "bscTestnet" THEN v ELSE bscTestnetBalance)
    /\ UNCHANGED fbAddressBook
    /\ FetchBabtFrame

\* The reader rejects: on the last round executeWithRetry rethrows, the
\* catch block of fetchMultiChainBABTBalance rethrows too, and the catch
\* block of fetchCombinedBadgeCount returns 0; on another round the backoff
\* timer starts.
FbAttemptFail(kind) ==
    /\ fbPc \in BabtChains
    /\ fbPhase = "call"
    /\ LET error == ReadError(kind, Len(fbAttempts[fbPc]) + 1) IN
         /\ fbAttempts' = [fbAttempts EXCEPT ![fbPc] = Append(@, Rejected(error))]
         /\ IF IsLastRound(fbI, DEFAULT_RETRIES)
              THEN /\ fbPc' = "settled"
                   /\ fbOutcome' = Rejected(error)
                   /\ combinedCount' = Fulfilled(0)
                   /\ fbPhase' = fbPhase
              ELSE /\ fbPhase' = "sleep"
                   /\ UNCHANGED <<fbPc, fbOutcome, combinedCount>>
    /\ UNCHANGED <<fbAddressBook, fbI, bscMainnetBalance, bscTestnetBalance>>
    /\ FetchBabtFrame

\* The backoff timer fires: the next round invokes the reader again.
FbWake ==
    /\ fbPc \in BabtChains
    /\ fbPhase = "sleep"
    /\ fbI' = fbI + 1
    /\ fbPhase' = "call"
    /\ UNCHANGED <<fbAddressBook, fbPc, fbAttempts, bscMainnetBalance,
                   bscTestnetBalance, fbOutcome, combinedCount>>
    /\ FetchBabtFrame

FetchBabtNext ==
    \/ FbEnter
    \/ \E v \in Values : FbAttemptOk(v)
    \/ \E kind \in ErrorKinds : FbAttemptFail(kind)
    \/ FbWake

\* ===================================== useMultiChainBalance (useState-based)
\* Time advances in steps of TickMs, at most MaxTicks times.
TickMs == 15000
MaxTicks == 3
\* How often refetch() is called, the call of the mount effect included.
MaxRefetchCalls == 2
\* How many public clients, and how many configured addresses, can be missing.
MaxMissing == 1

\* BalanceCache.ttl
TTL == 30000

\* The three useState slots, and what each one's fetchContractBalance call
\* is given: the chain of its client, its address book entry, contractType.
Sources == {"bscMainnet", "bscTestnet", "polygonBadge"}
SourceOrder == <<"bscMainnet", "bscTestnet", "polygonBadge">>

SourceChain(src) ==
    CASE src = "bscMainnet" -> "bsc"
      [] src = "bscTestnet" -> "bscTestnet"
      [] src = "polygonBadge" -> "polygon"

SourceType(src) == IF src = "polygonBadge" THEN "badge" ELSE "babt"

SourceEntry(src) == SourceType(src) \o ":" \o SourceChain(src)

StateChains == {SourceChain(src) : src \in Sources}
StateEntries == {SourceEntry(src) : src \in Sources}

\* The initial value of a slot (formatted is value.toString()).
ZeroBalance == [value |-> 0, isLoading |-> FALSE, error |-> NoError]

\* A faulty CacheKey, the account left out: the owners share their entries.
\* C26 fails with it.
CacheKeyWithoutAccount(contractType, contractAddress, account, chainId) ==
    contractType \o "_" \o contractAddress \o "_" \o chainId

\* `${contractType}_${contractAddress}_${account}_${client.chain.id}`
CacheKey(contractType, contractAddress, account, chainId) ==
    contractType \o "_" \o contractAddress \o "_" \o account \o "_" \o chainId

EmptyCache == [key \in {} |-> [value |-> 0, timestamp |-> 0]]

\* A faulty Expired, >= in place of >: an entry written exactly ttl ago is
\* thrown away. C14 fails with it.
ExpiredAtTtl(entry, t) == t - entry.timestamp >= TTL

\* now - cached.timestamp > this.ttl
Expired(entry, t) == t - entry.timestamp > TTL

\* BalanceCache.get: the value it returns (null without a fresh entry) ...
BalanceCacheGet(c, key, t) ==
    IF key \notin DOMAIN c THEN NullValue
    ELSE IF Expired(c[key], t) THEN NullValue
    ELSE Some(c[key].value)

\* ... and the map it leaves: an expired entry is deleted.
BalanceCacheAfterGet(c, keys, t) ==
    [key \in {k \in DOMAIN c : ~(k \in keys /\ Expired(c[k], t))} |-> c[key]]

\* BalanceCache.set
BalanceCacheSet(c, key, value, t) ==
    [k \in DOMAIN c \cup {key} |->
        IF k = key THEN [value |-> value, timestamp |-> t] ELSE c[k]]

\* if (!client || !contractAddress || !account) return BigInt(0)
FetchGuardFails(src) ==
    \/ SourceChain(src) \notin sClients
    \/ SourceEntry(src) \notin sAddressBook
    \/ sAddress = Null

FetchKey(src) == CacheKey(SourceType(src), SourceEntry(src), sAddress, SourceChain(src))

\* fetchContractBalance up to its first await: the guard returns 0, a fresh
\* cache entry returns its value, and otherwise executeWithRetry invokes
\* the reader for the first time.
FetchStarted(src) ==
    IF FetchGuardFails(src)
      THEN [pc |-> "done", calls |-> 0, outcome |-> Fulfilled(0)]
      ELSE LET cached == BalanceCacheGet(cache, FetchKey(src), now) IN
             IF cached # NullValue
               THEN [pc |-> "done", calls |-> 0, outcome |-> Fulfilled(cached[1])]
               ELSE [pc |-> "call", calls |-> 1, outcome |-> Pending]

NoFetches == [src \in Sources |-> [pc |-> "idle", calls |-> 0, outcome |-> Pending]]

\* A faulty SourcePromise, the .catch left out: a failed source rejects its
\* promise. C12 fails with it.
SourcePromiseWithoutCatch(outcome) ==
    IF outcome.status = "fulfilled"
      THEN Fulfilled([value |-> outcome.value, isLoading |-> FALSE, error |-> NoError])
      ELSE Rejected(outcome.reason)

\* .then(value => ({value, isLoading: false, error: undefined}))
\* .catch(error => ({value: BigInt(0), isLoading: false, error}))
SourcePromise(outcome) ==
    IF outcome.status = "fulfilled"
      THEN Fulfilled([value |-> outcome.value, isLoading |-> FALSE, error |-> NoError])
      ELSE Fulfilled([value |-> 0, isLoading |-> FALSE, error |-> outcome.reason])

\* Promise.all over settled promises: rejects if one of them rejected.
PromiseAll(promises) ==
    IF \E src \in Sources : promises[src].status = "rejected"
      THEN LET first == CHOOSE n \in 1..Len(SourceOrder) :
                          /\ promises[SourceOrder[n]].status = "rejected"
                          /\ \A m \in 1..(n - 1) :
                               promises[SourceOrder[m]].status # "rejected"
           IN Rejected(promises[SourceOrder[first]].reason)
      ELSE Fulfilled([src \in Sources |-> promises[src].value])

\* A faulty RefetchReturnsEarly, the guard left out: C2 fails with it.
RefetchNeverReturnsEarly(owner) == FALSE

\* if (!address) return
RefetchReturnsEarly(owner) == owner = Null

StateIdle ==
    /\ sAddress = Null
    /\ sClients = {}
    /\ sAddressBook = {}
    /\ balanceState = [src \in Sources |-> ZeroBalance]
    /\ isFetching = FALSE
    /\ cache = EmptyCache
    /\ now = 0
    /\ sPc = "unmounted"
    /\ sFetch = NoFetches
    /\ refetchCalls = 0
    /\ runs = <<>>

\* The hook has rendered for the first time; its effect has not run yet.
StateInit ==
    /\ sAddress \in {Null, "0xOwner"}
    /\ sClients \in {c \in SUBSET StateChains : Cardinality(StateChains \ c) <= MaxMissing}
    /\ sAddressBook \in {b \in SUBSET StateEntries : Cardinality(StateEntries \ b) <= MaxMissing}
    /\ balanceState = [src \in Sources |-> ZeroBalance]
    /\ isFetching = FALSE
    /\ cache = EmptyCache
    /\ now = 0
    /\ sPc = "mounting"
    /\ sFetch = NoFetches
    /\ refetchCalls = 0
    /\ runs = <<>>

\* refetch, past its guard, up to `await Promise.all`: the slots are marked
\* loading and the three fetchContractBalance calls are started.
RefetchRun ==
    /\ isFetching' = TRUE
    /\ balanceState' = [src \in Sources |->
                          [balanceState[src] EXCEPT !.isLoading = TRUE, !.error = NoError]]
    /\ sFetch' = [src \in Sources |-> FetchStarted(src)]
    /\ cache' = BalanceCacheAfterGet(
                    cache, {FetchKey(src) : src \in {s \in Sources : ~FetchGuardFails(s)}}, now)
    /\ sPc' = "fetching"

\* useEffect(..., [address, refetch]) after the first render.
EffectRun ==
    /\ sPc = "mounting"
    /\ IF sAddress # Null
         THEN /\ refetchCalls' = refetchCalls + 1
              /\ RefetchRun
         ELSE /\ balanceState' = [src \in Sources |-> ZeroBalance]
              /\ sPc' = "idle"
              /\ UNCHANGED <<isFetching, cache, sFetch, refetchCalls>>
    /\ UNCHANGED <<sAddress, sClients, sAddressBook, now>>
    /\ StateFrame

\* The caller of the hook calls refetch() while no refetch is running.
RefetchCall ==
    /\ sPc = "idle"
    /\ refetchCalls < MaxRefetchCalls
    /\ refetchCalls' = refetchCalls + 1
    /\ IF RefetchReturnsEarly(sAddress)
         THEN UNCHANGED <<balanceState, isFetching, cache, sPc, sFetch>>
         ELSE RefetchRun
    /\ UNCHANGED <<sAddress, sClients, sAddressBook, now>>
    /\ StateFrame

\* The reader of a source fulfils: executeWithRetry returns, and
\* fetchContractBalance stores the value in the cache and returns it.
SourceAttemptOk(src, v) ==
    /\ sPc = "fetching"
    /\ sFetch[src].pc = "call"
    /\ sFetch' = [sFetch EXCEPT ![src].pc = "done", ![src].outcome = Fulfilled(v)]
    /\ cache' = BalanceCacheSet(cache, FetchKey(src), v, now)
    /\ UNCHANGED <<sAddress, sClients, sAddressBook, balanceState, isFetching, now,
                   sPc, refetchCalls>>
    /\ StateFrame

\* The reader of a source rejects: on the last round executeWithRetry
\* rethrows and fetchContractBalance rejects; otherwise the backoff starts.
SourceAttemptFail(src, kind) ==
    /\ sPc = "fetching"
    /\ sFetch[src].pc = "call"
    /\ sFetch' = IF IsLastRound(sFetch[src].calls - 1, DEFAULT_RETRIES)
                   THEN [sFetch EXCEPT ![src].pc = "done",
                                       ![src].outcome =
                                           Rejected(ReadError(kind, sFetch[src].calls))]
                   ELSE [sFetch EXCEPT ![src].pc = "sleep"]
    /\ UNCHANGED <<sAddress, sClients, sAddressBook, balanceState, isFetching, cache,
                   now, sPc, refetchCalls>>
    /\ StateFrame

\* The backoff timer of a source fires: the next round invokes the reader.
SourceWake(src) ==
    /\ sPc = "fetching"
    /\ sFetch[src].pc = "sleep"
    /\ sFetch' = [sFetch EXCEPT ![src].pc = "call", ![src].calls = @ + 1]
    /\ UNCHANGED <<sAddress, sClients, sAddressBook, balanceState, isFetching, cache,
                   now, sPc, refetchCalls>>
    /\ StateFrame

\* Every fetchContractBalance call has settled: `await Promise.all` returns
\* (or throws into the catch block), the slots are set, and the finally
\* block clears isFetching.
RefetchSettle ==
    /\ sPc = "fetching"
    /\ \A src \in Sources : sFetch[src].pc = "done"
    /\ LET joined == PromiseAll([src \in Sources |-> SourcePromise(sFetch[src].outcome)]) IN
         balanceState' =
             IF joined.status = "fulfilled"
               THEN joined.value
               ELSE [src \in Sources |->
                       [balanceState[src] EXCEPT !.isLoading = FALSE,
                                                 !.error = joined.reason]]
    /\ isFetching' = FALSE
    /\ sPc' = "idle"
    /\ UNCHANGED <<sAddress, sClients, sAddressBook, cache, now, sFetch, refetchCalls>>
    /\ StateFrame

\* Time passes.
Tick ==
    /\ sPc # "unmounted"
    /\ now < MaxTicks * TickMs
    /\ now' = now + TickMs
    /\ UNCHANGED <<sAddress, sClients, sAddressBook, balanceState, isFetching, cache,
                   sPc, sFetch, refetchCalls>>
    /\ StateFrame

StateNext ==
    \/ EffectRun
    \/ RefetchCall
    \/ \E src \in Sources, v \in Values : SourceAttemptOk(src, v)
    \/ \E src \in Sources, kind \in ErrorKinds : SourceAttemptFail(src, kind)
    \/ \E src \in Sources : SourceWake(src)
    \/ RefetchSettle
    \/ Tick

\* polygonBscCombined and total of the hook's return value.
polygonBscCombined ==
    [value |-> balanceState["bscMainnet"].value + balanceState["polygonBadge"].value,
     isLoading |-> balanceState["bscMainnet"].isLoading
                     \/ balanceState["polygonBadge"].isLoading,
     error |-> IF balanceState["bscMainnet"].error # NoError
                 THEN balanceState["bscMainnet"].error
                 ELSE balanceState["polygonBadge"].error]

total ==
    [value |-> balanceState["bscMainnet"].value + balanceState["bscTestnet"].value
                 + balanceState["polygonBadge"].value,
     isLoading |-> \E src \in Sources : balanceState[src].isLoading,
     error |-> IF balanceState["bscMainnet"].error # NoError
                 THEN balanceState["bscMainnet"].error
                 ELSE IF balanceState["bscTestnet"].error # NoError
                        THEN balanceState["bscTestnet"].error
                        ELSE balanceState["polygonBadge"].error]

\* ------------------------ the useState-based hook, refetch calls one by one
\* Here every call of refetch() is followed on its own: the owner can change,
\* and refetch() can be called, while earlier calls still await their reads.
\* The rounds of executeWithRetry are taken in one step (SpecState takes them
\* one by one): a read returns, or fails for the last time.
\* How many calls of refetch() get past the guard.
MaxRuns == 2

\* The addresses the hook is rendered with.
Owners == {"0xOwner", "0xOther"}

RunIds == 1..MaxRuns
RunAwaiting(n) == n \in 1..Len(runs) /\ runs[n].pc = "await"

\* The reads of one call settle in the order of the sources: they write
\* different cache keys and the call waits for all three, so their order
\* changes nothing the hook keeps.
RunReadIsNext(n, src) ==
    /\ runs[n].fetch[src].pc = "call"
    /\ \A m \in 1..Len(SourceOrder) :
         SourceOrder[m] = src =>
             \A l \in 1..(m - 1) : runs[n].fetch[SourceOrder[l]].pc = "done"

\* The cache key of a call's fetchContractBalance: `account` is the address
\* of the render whose refetch was called.
RunKey(n, src) ==
    CacheKey(SourceType(src), SourceEntry(src), runs[n].owner, SourceChain(src))

\* The hook has rendered for the first time, with or without an owner; at
\* most MaxMissing of the clients and address book entries are missing.
RefetchesInit ==
    /\ sAddress \in {Null, "0xOwner"}
    /\ sClients \in SUBSET StateChains
    /\ sAddressBook \in SUBSET StateEntries
    /\ Cardinality(StateChains \ sClients) + Cardinality(StateEntries \ sAddressBook)
           <= MaxMissing
    /\ balanceState = [src \in Sources |-> ZeroBalance]
    /\ isFetching = FALSE
    /\ cache = EmptyCache
    /\ now = 0
    /\ sPc = "mounting"
    /\ sFetch = NoFetches
    /\ refetchCalls = 0
    /\ runs = <<>>

\* refetch, past its guard, up to `await Promise.all`.
RefetchStart ==
    /\ isFetching' = TRUE
    /\ balanceState' = [src \in Sources |->
                          [balanceState[src] EXCEPT !.isLoading = TRUE, !.error = NoError]]
    /\ runs' = Append(runs, [owner |-> sAddress, pc |-> "await",
                             fetch |-> [src \in Sources |-> FetchStarted(src)]])
    /\ cache' = BalanceCacheAfterGet(
                    cache, {FetchKey(src) : src \in {s \in Sources : ~FetchGuardFails(s)}}, now)

\* useEffect(..., [address, refetch]) after a render with a new address (the
\* first render included): refetch() for an owner, the three resets without.
RefetchEffect ==
    /\ sPc = "mounting"
    /\ sPc' = "idle"
    /\ IF sAddress # Null
         THEN /\ refetchCalls' = refetchCalls + 1
              /\ RefetchStart
         ELSE /\ balanceState' = [src \in Sources |-> ZeroBalance]
              /\ UNCHANGED <<isFetching, cache, runs, refetchCalls>>
    /\ UNCHANGED <<sAddress, sClients, sAddressBook, now, sFetch>>
    /\ RefetchesFrame

\* The parent renders the hook with another address, or with none.
OwnerRender(owner) ==
    /\ sPc = "idle"
    /\ owner # sAddress
    /\ owner # Null => refetchCalls < MaxRuns
    /\ sAddress' = owner
    /\ sPc' = "mounting"
    /\ UNCHANGED <<sClients, sAddressBook, balanceState, isFetching, cache, now, sFetch,
                   refetchCalls, runs>>
    /\ RefetchesFrame

\* The consumer calls the refetch of the hook's return value, whether or not
\* an earlier call is still running.
RefetchAgain ==
    /\ sPc = "idle"
    /\ refetchCalls < MaxRuns
    /\ refetchCalls' = refetchCalls + 1
    /\ IF RefetchReturnsEarly(sAddress)
         THEN UNCHANGED <<balanceState, isFetching, cache, runs>>
         ELSE RefetchStart
    /\ UNCHANGED <<sAddress, sClients, sAddressBook, now, sPc, sFetch>>
    /\ RefetchesFrame

\* executeWithRetry returns for a source of a call: fetchContractBalance
\* stores the value under the call's key and returns it.
RunReadOk(n, src, v) ==
    /\ sPc = "idle"
    /\ RunAwaiting(n)
    /\ RunReadIsNext(n, src)
    /\ runs' = [runs EXCEPT ![n].fetch[src].pc = "done",
                            ![n].fetch[src].outcome = Fulfilled(v)]
    /\ cache' = BalanceCacheSet(cache, RunKey(n, src), v, now)
    /\ UNCHANGED <<sAddress, sClients, sAddressBook, balanceState, isFetching, now, sPc,
                   sFetch, refetchCalls>>
    /\ RefetchesFrame

\* executeWithRetry rethrows the error of its last round (a transport error
\* here): fetchContractBalance rejects before cache.set.
RunReadFail(n, src) ==
    /\ sPc = "idle"
    /\ RunAwaiting(n)
    /\ RunReadIsNext(n, src)
    /\ runs' = [runs EXCEPT ![n].fetch[src].pc = "done",
                            ![n].fetch[src].calls = DEFAULT_RETRIES,
                            ![n].fetch[src].outcome =
                                Rejected(ReadError("rpc", DEFAULT_RETRIES))]
    /\ UNCHANGED <<sAddress, sClients, sAddressBook, balanceState, isFetching, cache, now,
                   sPc, sFetch, refetchCalls>>
    /\ RefetchesFrame

\* `await Promise.all` of a call returns: the three slots are set, and the
\* finally block clears isFetching.
RunSettle(n) ==
    /\ sPc = "idle"
    /\ RunAwaiting(n)
    /\ \A src \in Sources : runs[n].fetch[src].pc = "done"
    /\ LET joined == PromiseAll([src \in Sources |->
                                   SourcePromise(runs[n].fetch[src].outcome)]) IN
         balanceState' =
             IF joined.status = "fulfilled"
               THEN joined.value
               ELSE [src \in Sources |->
                       [balanceState[src] EXCEPT !.isLoading = FALSE,
                                                 !.error = joined.reason]]
    /\ isFetching' = FALSE
    /\ runs' = [runs EXCEPT ![n].pc = "settled"]
    /\ UNCHANGED <<sAddress, sClients, sAddressBook, cache, now, sPc, sFetch, refetchCalls>>
    /\ RefetchesFrame

\* Time passes while no call is running (a tick is 15 s, a read takes less).
RefetchesTick ==
    /\ \A n \in 1..Len(runs) : ~RunAwaiting(n)
    /\ Tick

RefetchesNext ==
    \/ RefetchEffect
    \/ \E owner \in Owners \cup {Null} : OwnerRender(owner)
    \/ RefetchAgain
    \/ \E n \in RunIds, src \in Sources, v \in Values : RunReadOk(n, src, v)
    \/ \E n \in RunIds, src \in Sources : RunReadFail(n, src)
    \/ \E n \in RunIds : RunSettle(n)
    \/ RefetchesTick

\* ============================================== badge image cache (badgeCache)
\* CACHE_DURATION_MS = 24 * 60 * 60 * 1000.
CACHE_DURATION_MS == 86400000

\* Badge ids, metadata revisions and image payloads the callers and the network
\* can produce, the number of calls of one run, of calls in flight at a time and
\* of failing steps, and how far around the cache duration the clock is observed.
MaxIds == 2
MaxMeta == 2
MaxPayload == 2
MaxEnvCalls == 3
MaxInFlight == 2
MaxFailures == 1
MaxDrift == 1
\* Mounts of a component using useBadgeCache and calls of its loadBadge in one run.
MaxMounts == 2
MaxLoads == 2

BadgeIds == 1..MaxIds
\* IBadge: the metadata of one badge; name and imageUrl change with the revision.
BadgeData(id, rev) == [id |-> id, name |-> rev, imageUrl |-> rev]
BadgeDatas == {BadgeData(id, rev) : id \in BadgeIds, rev \in 1..MaxMeta}
NoData == [none |-> "data"]

\* ICachedBadgeEntry: { ...badgeData, imageBlob, cachedAt }.
CachedBadgeEntry(badgeData, imageBlob, cachedAt) ==
    [id |-> badgeData.id, name |-> badgeData.name, imageUrl |-> badgeData.imageUrl,
     imageBlob |-> imageBlob, cachedAt |-> cachedAt]
\* What store.get yields for a key without entry, and what the function resolves
\* to on a miss.
NoEntry == [none |-> "entry"]
\* The value of a Promise<void>.
Void == [none |-> "void"]

\* The error of a failed IndexedDB request, the reason of reject(null), and the
\* error urlToBlob throws.
StoreError == [name |-> "DOMException"]
NullReason == [name |-> "null"]
FetchImageError == CodeError("Failed to fetch image")

\* The object store has keyPath 'id': get, put and delete go by the entry's id.
StoreGet(s, id) ==
    IF \E e \in s : e.id = id THEN CHOOSE e \in s : e.id = id ELSE NoEntry
StorePutAdd(s, entry) == s \cup {entry}
StorePut(s, entry) == {e \in s : e.id # entry.id} \cup {entry}
StoreDeleteAll(s, id) == {}
StoreDelete(s, id) == {e \in s : e.id # id}

\* const isExpired = Date.now() - entry.cachedAt > CACHE_DURATION_MS
isExpiredAtDuration(t, entry) == t - entry.cachedAt >= CACHE_DURATION_MS
isExpired(t, entry) == t - entry.cachedAt > CACHE_DURATION_MS

\* One call of getBadgeFromCache, setBadgeInCache or invalidateBadgeCache: who
\* made it, its argument, where it stands, the entry it holds (the one built by
\* set, the one read by get) and the promise it returned.
NewCall(op, caller, id, badgeData) ==
    [op |-> op, caller |-> caller, id |-> id, badgeData |-> badgeData,
     pc |-> IF op = "set" THEN "fetch" ELSE IF op = "get" THEN "read" ELSE "delete",
     entry |-> NoEntry, result |-> Pending]
Slots == 1..Len(calls)
\* No run makes more calls than these: those of the callers outside the hook and
\* four for each load (invalidate, get, set, get).
CallIds == 1..(MaxEnvCalls + 4 * MaxLoads)
InFlight(n) == n \in Slots /\ calls[n].result = Pending /\ calls[n].pc # "stuck"
EnvCalls == {n \in Slots : calls[n].caller = "env"}
Failed(n) == calls[n].result.status = "rejected" \/ calls[n].pc = "stuck"
\* The network or the database can still fail in this run.
CanFail == Cardinality({n \in Slots : Failed(n)}) < MaxFailures
\* A further call can be made, and ids come into use in ascending order.
CanCall(id) ==
    /\ Cardinality(EnvCalls) < MaxEnvCalls
    /\ Cardinality({n \in Slots : InFlight(n)}) < MaxInFlight
    /\ \A k \in 1..(id - 1) : \E n \in Slots : calls[n].id = k
\* The hook is given its ids in ascending order, too.
CanLoad(id) == \A k \in 1..(id - 1) : \E l \in 1..Len(loads) : loads[l].badgeId = k

\* The instants at which the clock is observed: the start, and the instants
\* around one cache duration later.
CacheTimes == {0} \cup {CACHE_DURATION_MS + d : d \in (0 - MaxDrift)..MaxDrift}

CacheIdle ==
    /\ store = {}
    /\ cacheNow = 0
    /\ calls = <<>>

CacheInit == CacheIdle

\* A caller outside the hook calls one of the three functions.
EnvCallGet(id) ==
    /\ CanCall(id)
    /\ calls' = Append(calls, NewCall("get", "env", id, NoData))
    /\ UNCHANGED <<store, cacheNow>>
    /\ CacheFrame

EnvCallSet(badgeData) ==
    /\ CanCall(badgeData.id)
    /\ calls' = Append(calls, NewCall("set", "env", badgeData.id, badgeData))
    /\ UNCHANGED <<store, cacheNow>>
    /\ CacheFrame

EnvCallInvalidate(id) ==
    /\ CanCall(id)
    /\ calls' = Append(calls, NewCall("invalidate", "env", id, NoData))
    /\ UNCHANGED <<store, cacheNow>>
    /\ CacheFrame

\* In each function await openDB() and the request that follows it are one step:
\* opening the database changes nothing another call can see. A step fails when
\* openDB rejects or when the request reports an error.

\* request.onsuccess of store.get(id) in getBadgeFromCache.
GetReadOk(n) ==
    /\ InFlight(n)
    /\ calls[n].pc = "read"
    /\ LET entry == StoreGet(store, calls[n].id)
       IN calls' = [calls EXCEPT ![n] =
            IF entry = NoEntry
            THEN [@ EXCEPT !.pc = "done", !.result = Fulfilled(NoEntry)]
            ELSE IF isExpired(cacheNow, entry)
            THEN [@ EXCEPT !.pc = "evictDelete", !.entry = entry]
            ELSE [@ EXCEPT !.pc = "done", !.entry = entry, !.result = Fulfilled(entry)]]
    /\ UNCHANGED <<store, cacheNow>>
    /\ CacheFrame

\* openDB rejects with the error of the open request, or request.onerror of
\* store.get(id) runs: reject(null).
GetReadFail(n, reason) ==
    /\ InFlight(n)
    /\ CanFail
    /\ calls[n].pc = "read"
    /\ calls' = [calls EXCEPT ![n].pc = "done", ![n].result = Rejected(reason)]
    /\ UNCHANGED <<store, cacheNow>>
    /\ CacheFrame

\* request.onsuccess of store.delete(id), in invalidateBadgeCache called directly
\* or by the eviction of getBadgeFromCache (which then resolves to null).
DeleteOk(n) ==
    /\ InFlight(n)
    /\ calls[n].pc \in {"delete", "evictDelete"}
    /\ store' = StoreDelete(store, calls[n].id)
    /\ calls' = [calls EXCEPT ![n].pc = "done",
            ![n].result = IF calls[n].op = "get" THEN Fulfilled(NoEntry)
                          ELSE Fulfilled(Void)]
    /\ UNCHANGED cacheNow
    /\ CacheFrame

\* openDB rejects or request.onerror of store.delete(id) runs:
\* invalidateBadgeCache rejects. Inside the eviction of getBadgeFromCache that
\* rejection has no handler, and the promise of the get is never settled.
DeleteFail(n) ==
    /\ InFlight(n)
    /\ CanFail
    /\ calls[n].pc \in {"delete", "evictDelete"}
    /\ calls' = [calls EXCEPT ![n] =
            IF calls[n].pc = "evictDelete"
            THEN [@ EXCEPT !.pc = "stuck"]
            ELSE [@ EXCEPT !.pc = "done", !.result = Rejected(StoreError)]]
    /\ UNCHANGED <<store, cacheNow>>
    /\ CacheFrame

\* urlToBlob resolves with the image; the entry is built with Date.now().
SetFetchOk(n, imageBlob) ==
    /\ InFlight(n)
    /\ calls[n].pc = "fetch"
    /\ calls' = [calls EXCEPT ![n].pc = "put",
            ![n].entry = CachedBadgeEntry(calls[n].badgeData, imageBlob, cacheNow)]
    /\ UNCHANGED <<store, cacheNow>>
    /\ CacheFrame

\* urlToBlob throws (transport error or !response.ok); the catch rethrows.
SetFetchFail(n) ==
    /\ InFlight(n)
    /\ CanFail
    /\ calls[n].pc = "fetch"
    /\ calls' = [calls EXCEPT ![n].pc = "done", ![n].result = Rejected(FetchImageError)]
    /\ UNCHANGED <<store, cacheNow>>
    /\ CacheFrame

\* request.onsuccess of store.put(entry).
SetPutOk(n) ==
    /\ InFlight(n)
    /\ calls[n].pc = "put"
    /\ store' = StorePut(store, calls[n].entry)
    /\ calls' = [calls EXCEPT ![n].pc = "done", ![n].result = Fulfilled(Void)]
    /\ UNCHANGED cacheNow
    /\ CacheFrame

\* openDB rejects or request.onerror of store.put(entry) runs.
SetPutFail(n) ==
    /\ InFlight(n)
    /\ CanFail
    /\ calls[n].pc = "put"
    /\ calls' = [calls EXCEPT ![n].pc = "done", ![n].result = Rejected(StoreError)]
    /\ UNCHANGED <<store, cacheNow>>
    /\ CacheFrame

\* Time passes.
CacheTick(t) ==
    /\ t > cacheNow
    /\ cacheNow' = t
    /\ UNCHANGED <<store, calls>>
    /\ CacheFrame

CacheNext ==
    \/ (\E id \in BadgeIds : EnvCallGet(id))
    \/ (\E badgeData \in BadgeDatas : EnvCallSet(badgeData))
    \/ (\E id \in BadgeIds : EnvCallInvalidate(id))
    \/ (\E n \in CallIds : GetReadOk(n))
    \/ (\E n \in CallIds, reason \in {StoreError, NullReason} : GetReadFail(n, reason))
    \/ (\E n \in CallIds : DeleteOk(n))
    \/ (\E n \in CallIds : DeleteFail(n))
    \/ (\E n \in CallIds, imageBlob \in 1..MaxPayload : SetFetchOk(n, imageBlob))
    \/ (\E n \in CallIds : SetFetchFail(n))
    \/ (\E n \in CallIds : SetPutOk(n))
    \/ (\E n \in CallIds : SetPutFail(n))
    \/ (\E t \in CacheTimes : CacheTick(t))

\* =============================================================== useBadgeCache
\* badgeId '' (falsy), localImageUrl '' and name ''.
NoBadge == 0
NoHandle == 0
NoName == 0
\* No effect has run yet.
NoDeps == <<>>

\* fetchSingleBadgeFromApi: { id: badgeId, name: `Arcana Reward ${badgeId}`,
\* imageUrl: `https://picsum.photos/id/...` }, the same on every call.
fetchSingleBadgeFromApi(id) == BadgeData(id, 1)

\* useState<BadgeCacheData>({ id: badgeId, name: '', localImageUrl: '', isCacheHit: false })
InitialData(id) ==
    [id |-> id, name |-> NoName, localImageUrl |-> NoHandle, isCacheHit |-> FALSE]

LoadIds == 1..Len(loads)
\* The cache call a load is awaiting, and its promise.
Awaited(k) == loads[k].callsMade[Len(loads[k].callsMade)]
AwaitedResult(k) == calls[Awaited(k)].result
\* The component instance that started the load is still mounted: its state
\* setters still have an effect.
Live(k) == hMounted /\ loads[k].instance = hMounts

\* A cache call made by loadBadge.
HookCall(op, id, badgeData) == NewCall(op, "hook", id, badgeData)

\* if (cachedEntry), if (newCachedEntry).
FoundNever(cachedEntry) == FALSE
Found(cachedEntry) == cachedEntry # NoEntry

\* URL.revokeObjectURL(url) behind if (url).
Revoke(log, url) == IF url = NoHandle THEN log ELSE Append(log, url)
\* The cleanup of the load effect revokes the currentLocalUrl of its closure.
LoadCleanup(log) ==
    IF effectLoad = 0 THEN log ELSE Revoke(log, loads[effectLoad].currentLocalUrl)

BadgeIdle ==
    /\ hMounted = FALSE
    /\ hMounts = 0
    /\ badgeId = NoBadge
    /\ data = InitialData(NoBadge)
    /\ isLoading = TRUE
    /\ shouldRefresh = FALSE
    /\ effectDeps = NoDeps
    /\ effectLoad = 0
    /\ idEffectDep = NoDeps
    /\ idEffectUrl = NoHandle
    /\ loads = <<>>
    /\ minted = 0
    /\ revoked = <<>>

BadgeInit == BadgeIdle

\* A component calling useBadgeCache(id) with the id of a badge is mounted: the
\* first render.
BadgeMount(id) ==
    /\ ~hMounted
    /\ hMounts < MaxMounts
    /\ Len(loads) < MaxLoads
    /\ CanLoad(id)
    /\ hMounted' = TRUE
    /\ hMounts' = hMounts + 1
    /\ badgeId' = id
    /\ data' = InitialData(id)
    /\ isLoading' = TRUE
    /\ shouldRefresh' = FALSE
    /\ effectDeps' = NoDeps
    /\ effectLoad' = 0
    /\ idEffectDep' = NoDeps
    /\ idEffectUrl' = NoHandle
    /\ UNCHANGED <<loads, minted, revoked, cacheVars>>
    /\ BadgeFrame

\* The effects of a render whose dependencies differ from those of their last
\* run: the cleanups of the previous run, then useEffect(..., [badgeId,
\* shouldRefresh]) calls loadBadge unless badgeId is empty, and useEffect(...,
\* [badgeId]) keeps the data of this render for its cleanup.
BadgeEffects ==
    /\ hMounted
    /\ effectDeps # <<badgeId, shouldRefresh>>
    /\ badgeId # NoBadge => Len(loads) < MaxLoads
    /\ LET idChanged == idEffectDep # <<badgeId>>
       IN /\ revoked' = IF idChanged THEN Revoke(LoadCleanup(revoked), idEffectUrl)
                        ELSE LoadCleanup(revoked)
          /\ idEffectUrl' = IF idChanged THEN data.localImageUrl ELSE idEffectUrl
    /\ idEffectDep' = <<badgeId>>
    /\ effectDeps' = <<badgeId, shouldRefresh>>
    /\ IF badgeId = NoBadge
       THEN /\ effectLoad' = 0
            /\ UNCHANGED <<loads, calls, isLoading>>
       ELSE /\ effectLoad' = Len(loads) + 1
            /\ isLoading' = TRUE
            /\ calls' = Append(calls,
                    HookCall(IF shouldRefresh THEN "invalidate" ELSE "get", badgeId, NoData))
            /\ loads' = Append(loads,
                    [badgeId |-> badgeId, shouldRefresh |-> shouldRefresh,
                     instance |-> hMounts,
                     pc |-> IF shouldRefresh THEN "invalidate" ELSE "get",
                     callsMade |-> <<Len(calls) + 1>>,
                     fetched |-> FALSE,
                     currentLocalUrl |-> NoHandle])
    /\ UNCHANGED <<hMounted, hMounts, badgeId, data, shouldRefresh, minted, store, cacheNow>>
    /\ BadgeFrame

\* The component is unmounted: both cleanups run.
BadgeUnmount ==
    /\ hMounted
    /\ effectDeps = <<badgeId, shouldRefresh>>
    /\ hMounted' = FALSE
    /\ revoked' = Revoke(LoadCleanup(revoked), idEffectUrl)
    /\ UNCHANGED <<hMounts, badgeId, data, isLoading, shouldRefresh, effectDeps,
                   effectLoad, idEffectDep, idEffectUrl, loads, minted, cacheVars>>
    /\ BadgeFrame

\* The parent renders the component with another badgeId.
BadgeIdChange(id) ==
    /\ hMounted
    /\ effectDeps = <<badgeId, shouldRefresh>>
    /\ id # badgeId
    /\ Len(loads) < MaxLoads
    /\ CanLoad(id)
    /\ badgeId' = id
    /\ UNCHANGED <<hMounted, hMounts, data, isLoading, shouldRefresh, effectDeps,
                   effectLoad, idEffectDep, idEffectUrl, loads, minted, revoked, cacheVars>>
    /\ BadgeFrame

\* refreshBadge(): setShouldRefresh(true).
refreshBadge ==
    /\ hMounted
    /\ effectDeps = <<badgeId, shouldRefresh>>
    /\ ~shouldRefresh
    /\ Len(loads) < MaxLoads
    /\ shouldRefresh' = TRUE
    /\ UNCHANGED <<hMounted, hMounts, badgeId, data, isLoading, effectDeps,
                   effectLoad, idEffectDep, idEffectUrl, loads, minted, revoked, cacheVars>>
    /\ BadgeFrame

\* await invalidateBadgeCache(badgeId) resolves: setShouldRefresh(false), then
\* getBadgeFromCache(badgeId) is called.
LoadInvalidated(k) ==
    /\ k \in LoadIds
    /\ loads[k].pc = "invalidate"
    /\ AwaitedResult(k).status = "fulfilled"
    /\ shouldRefresh' = IF Live(k) THEN FALSE ELSE shouldRefresh
    /\ calls' = Append(calls, HookCall("get", loads[k].badgeId, NoData))
    /\ loads' = [loads EXCEPT ![k].pc = "get",
                              ![k].callsMade = Append(@, Len(calls) + 1)]
    /\ UNCHANGED <<hMounted, hMounts, badgeId, data, isLoading, effectDeps, effectLoad,
                   idEffectDep, idEffectUrl, minted, revoked, store, cacheNow>>
    /\ BadgeFrame

\* await invalidateBadgeCache(badgeId) rejects: the await stands before the try,
\* loadBadge rejects and neither catch nor finally runs.
LoadInvalidateFailed(k) ==
    /\ k \in LoadIds
    /\ loads[k].pc = "invalidate"
    /\ AwaitedResult(k).status = "rejected"
    /\ loads' = [loads EXCEPT ![k].pc = "crashed"]
    /\ UNCHANGED <<hMounted, hMounts, badgeId, data, isLoading, shouldRefresh, effectDeps,
                   effectLoad, idEffectDep, idEffectUrl, minted, revoked, cacheVars>>
    /\ BadgeFrame

\* getBadgeFromCache resolved with an entry, at the first get (cache hit) or at
\* the get after the set: blobToLocalUrl mints an object URL, setData, and the
\* finally block clears isLoading.
LoadMinted(k) ==
    /\ k \in LoadIds
    /\ loads[k].pc \in {"get", "reget"}
    /\ AwaitedResult(k).status = "fulfilled"
    /\ Found(AwaitedResult(k).value)
    /\ minted' = minted + 1
    /\ loads' = [loads EXCEPT ![k].pc = "done", ![k].currentLocalUrl = minted + 1]
    /\ IF Live(k)
       THEN /\ data' = [id |-> loads[k].badgeId,
                        name |-> AwaitedResult(k).value.name,
                        localImageUrl |-> minted + 1,
                        isCacheHit |-> (loads[k].pc = "get")]
            /\ isLoading' = FALSE
       ELSE UNCHANGED <<data, isLoading>>
    /\ UNCHANGED <<hMounted, hMounts, badgeId, shouldRefresh, effectDeps, effectLoad,
                   idEffectDep, idEffectUrl, revoked, cacheVars>>
    /\ BadgeFrame

\* The first getBadgeFromCache resolved to null: fetchSingleBadgeFromApi is called.
LoadMiss(k) ==
    /\ k \in LoadIds
    /\ loads[k].pc = "get"
    /\ AwaitedResult(k).status = "fulfilled"
    /\ ~Found(AwaitedResult(k).value)
    /\ loads' = [loads EXCEPT ![k].pc = "meta", ![k].fetched = TRUE]
    /\ UNCHANGED <<hMounted, hMounts, badgeId, data, isLoading, shouldRefresh, effectDeps,
                   effectLoad, idEffectDep, idEffectUrl, minted, revoked, cacheVars>>
    /\ BadgeFrame

\* fetchSingleBadgeFromApi resolves: setBadgeInCache(badgeApiData) is called.
LoadMetaFetched(k) ==
    /\ k \in LoadIds
    /\ loads[k].pc = "meta"
    /\ calls' = Append(calls, HookCall("set", loads[k].badgeId,
                                       fetchSingleBadgeFromApi(loads[k].badgeId)))
    /\ loads' = [loads EXCEPT ![k].pc = "set",
                              ![k].callsMade = Append(@, Len(calls) + 1)]
    /\ UNCHANGED <<hMounted, hMounts, badgeId, data, isLoading, shouldRefresh, effectDeps,
                   effectLoad, idEffectDep, idEffectUrl, minted, revoked, store, cacheNow>>
    /\ BadgeFrame

\* await setBadgeInCache resolves: getBadgeFromCache(badgeId) is called again.
LoadStored(k) ==
    /\ k \in LoadIds
    /\ loads[k].pc = "set"
    /\ AwaitedResult(k).status = "fulfilled"
    /\ calls' = Append(calls, HookCall("get", loads[k].badgeId, NoData))
    /\ loads' = [loads EXCEPT ![k].pc = "reget",
                              ![k].callsMade = Append(@, Len(calls) + 1)]
    /\ UNCHANGED <<hMounted, hMounts, badgeId, data, isLoading, shouldRefresh, effectDeps,
                   effectLoad, idEffectDep, idEffectUrl, minted, revoked, store, cacheNow>>
    /\ BadgeFrame

\* The get after the set resolved to null: no setData, finally clears isLoading.
LoadRegetMiss(k) ==
    /\ k \in LoadIds
    /\ loads[k].pc = "reget"
    /\ AwaitedResult(k).status = "fulfilled"
    /\ ~Found(AwaitedResult(k).value)
    /\ loads' = [loads EXCEPT ![k].pc = "done"]
    /\ isLoading' = IF Live(k) THEN FALSE ELSE isLoading
    /\ UNCHANGED <<hMounted, hMounts, badgeId, data, shouldRefresh, effectDeps,
                   effectLoad, idEffectDep, idEffectUrl, minted, revoked, cacheVars>>
    /\ BadgeFrame

\* setData(prev => ({ ...prev, localImageUrl: '', isCacheHit: false }))
CatchDataKeepsUrl(prev) == [prev EXCEPT !.isCacheHit = FALSE]
CatchData(prev) == [prev EXCEPT !.localImageUrl = NoHandle, !.isCacheHit = FALSE]

\* An awaited call inside the try rejects: the catch block empties the URL and
\* clears isCacheHit, finally clears isLoading.
LoadFailed(k) ==
    /\ k \in LoadIds
    /\ loads[k].pc \in {"get", "set", "reget"}
    /\ AwaitedResult(k).status = "rejected"
    /\ loads' = [loads EXCEPT ![k].pc = "done"]
    /\ IF Live(k)
       THEN /\ data' = CatchData(data)
            /\ isLoading' = FALSE
       ELSE UNCHANGED <<data, isLoading>>
    /\ UNCHANGED <<hMounted, hMounts, badgeId, shouldRefresh, effectDeps, effectLoad,
                   idEffectDep, idEffectUrl, minted, revoked, cacheVars>>
    /\ BadgeFrame

\* A load that has ended, or that awaits a promise which will never settle.
AtRest(k) == loads[k].pc \in {"done", "crashed"} \/ calls[Awaited(k)].pc = "stuck"
\* The instants of the clock lie a cache duration apart and a load takes about
\* a second: the clock reaches its next instant while no load is under way.
BadgeTick(t) ==
    /\ \A k \in LoadIds : AtRest(k)
    /\ CacheTick(t)

BadgeNext ==
    \/ (\E id \in BadgeIds : BadgeMount(id))
    \/ BadgeEffects
    \/ BadgeUnmount
    \/ (\E id \in BadgeIds : BadgeIdChange(id))
    \/ refreshBadge
    \/ (\E k \in 1..MaxLoads : LoadInvalidated(k))
    \/ (\E k \in 1..MaxLoads : LoadInvalidateFailed(k))
    \/ (\E k \in 1..MaxLoads : LoadMinted(k))
    \/ (\E k \in 1..MaxLoads : LoadMiss(k))
    \/ (\E k \in 1..MaxLoads : LoadMetaFetched(k))
    \/ (\E k \in 1..MaxLoads : LoadStored(k))
    \/ (\E k \in 1..MaxLoads : LoadRegetMiss(k))
    \/ (\E k \in 1..MaxLoads : LoadFailed(k))
    \/ (\E n \in CallIds : GetReadOk(n))
    \/ (\E n \in CallIds, reason \in {StoreError, NullReason} : GetReadFail(n, reason))
    \/ (\E n \in CallIds : DeleteOk(n))
    \/ (\E n \in CallIds : DeleteFail(n))
    \/ (\E n \in CallIds, imageBlob \in 1..MaxPayload : SetFetchOk(n, imageBlob))
    \/ (\E n \in CallIds : SetFetchFail(n))
    \/ (\E n \in CallIds : SetPutOk(n))
    \/ (\E n \in CallIds : SetPutFail(n))
    \/ (\E t \in CacheTimes : BadgeTick(t))

\* ============================================================= specifications
InitRetry ==
    RetryInit /\ ReadBadgeIdle /\ QueryIdle /\ FetchBabtIdle /\ StateIdle /\ KeyIdle /\ CacheIdle
        /\ BadgeIdle
SpecRetry == InitRetry /\ [][RetryNext]_vars

\* Every invocation of fn settles and every backoff timer fires.
SpecRetryFair == SpecRetry /\ WF_vars(RetryNext)

InitReadBadge ==
    ReadBadgeInit /\ RetryIdle /\ QueryIdle /\ FetchBabtIdle /\ StateIdle /\ KeyIdle /\ CacheIdle
        /\ BadgeIdle
SpecReadBadge == InitReadBadge /\ [][ReadBadgeNext]_vars

InitQuery ==
    QueryInit /\ RetryIdle /\ ReadBadgeIdle /\ FetchBabtIdle /\ StateIdle /\ KeyIdle /\ CacheIdle
        /\ BadgeIdle
SpecQuery == InitQuery /\ [][QueryNext]_vars

InitFetchBabt ==
    FetchBabtInit /\ RetryIdle /\ ReadBadgeIdle /\ QueryIdle /\ StateIdle /\ KeyIdle /\ CacheIdle
        /\ BadgeIdle
SpecFetchBabt == InitFetchBabt /\ [][FetchBabtNext]_vars

InitState ==
    StateInit /\ RetryIdle /\ ReadBadgeIdle /\ QueryIdle /\ FetchBabtIdle /\ KeyIdle /\ CacheIdle
        /\ BadgeIdle
SpecState == InitState /\ [][StateNext]_vars

InitKey ==
    KeyInit /\ RetryIdle /\ ReadBadgeIdle /\ QueryIdle /\ FetchBabtIdle /\ StateIdle
        /\ CacheIdle
        /\ BadgeIdle
SpecKey == InitKey /\ [][KeyNext]_vars

\* One of the two hooks named useMultiChainBalance is mounted.
InitHooks ==
    /\ \/ QueryInit /\ StateIdle
       \/ StateInit /\ QueryIdle
    /\ RetryIdle /\ ReadBadgeIdle /\ FetchBabtIdle /\ KeyIdle /\ CacheIdle
        /\ BadgeIdle
HooksNext == QueryNext \/ StateNext
SpecHooks == InitHooks /\ [][HooksNext]_vars

\* The state-based hook with its refetch calls followed one by one.
InitRefetches ==
    RefetchesInit /\ RetryIdle /\ ReadBadgeIdle /\ QueryIdle /\ FetchBabtIdle /\ KeyIdle /\ CacheIdle
        /\ BadgeIdle
SpecRefetches == InitRefetches /\ [][RefetchesNext]_vars

InitCache ==
    CacheInit /\ RetryIdle /\ ReadBadgeIdle /\ QueryIdle /\ FetchBabtIdle /\ StateIdle
        /\ KeyIdle /\ BadgeIdle
SpecCache == InitCache /\ [][CacheNext]_vars

InitBadge ==
    BadgeInit /\ CacheInit /\ RetryIdle /\ ReadBadgeIdle /\ QueryIdle /\ FetchBabtIdle
        /\ StateIdle /\ KeyIdle
SpecBadge == InitBadge /\ [][BadgeNext]_vars

\* ===================================================================== claims
RetrySettled == retryPc = "settled"

AllRejected(outcomes) == \A n \in 1..Len(outcomes) : outcomes[n].status = "rejected"

\* C7: with retries = 3, a reader that fails on attempts 1 and 2 and succeeds
\* on attempt 3 makes the call resolve with the third attempt's value: the
\* reader is invoked exactly 3 times, no error is propagated, and the backoff
\* slept is 1000 ms then 2000 ms, in both variants.
RetryThirdAttemptSucceeds ==
    ( /\ retries = DEFAULT_RETRIES
      /\ Len(retryOutcomes) >= 3
      /\ AllRejected(SubSeq(retryOutcomes, 1, 2))
      /\ retryOutcomes[3].status = "fulfilled" )
    => /\ Len(retryOutcomes) = 3
       /\ retryPc = "settled"
       /\ retryResult = Fulfilled(retryOutcomes[3].value)
       /\ retrySleeps = <<1000, 2000>>
       /\ SumSeq(retrySleeps) = 3000

RetryThirdAttemptSucceedsWitness ==
    /\ retries = DEFAULT_RETRIES
    /\ retryVariant = "useContract"
    /\ Len(retryOutcomes) = 3
    /\ AllRejected(SubSeq(retryOutcomes, 1, 2))
    /\ retryOutcomes[3] = Fulfilled(1)
    /\ retryResult = Fulfilled(1)

\* What holds at every moment of a call with retries = 3: never more than 3
\* invocations, at most 7000 ms of backoff; and when every attempt has
\* failed, the call has rejected with the error of the third attempt after
\* two sleeps (none after the final attempt).
RetryExhaustedInv ==
    retries = DEFAULT_RETRIES =>
        /\ Len(retryOutcomes) <= 3
        /\ SumSeq(retrySleeps) <= 7000
        /\ (Len(retryOutcomes) = 3 /\ AllRejected(retryOutcomes)) =>
              /\ retryPc = "settled"
              /\ retryResult = Rejected(retryOutcomes[3].reason)
              /\ Len(retrySleeps) = 2

\* C8: a reader that fails on every attempt is invoked exactly 3 times, the
\* call then rejects with the last attempt's error without sleeping again;
\* for every sequence of reader outcomes the call settles, having slept at
\* most 7000 ms.
RetryExhausted == []RetryExhaustedInv /\ <>RetrySettled

RetryExhaustedWitness ==
    /\ retries = DEFAULT_RETRIES
    /\ retryVariant = "hook"
    /\ Len(retryOutcomes) = 3
    /\ AllRejected(retryOutcomes)
    /\ retryOutcomes[2].reason.kind # retryOutcomes[3].reason.kind
    /\ retryResult = Rejected(retryOutcomes[3].reason)

\* ------------------------------------------------ the useQuery-based hook
QueryErrors == qData[1].errors
QueryBalances == qData[1].balances

\* A finished aggregation for a present owner.
QueryAggregated == qPc = "success" /\ address # Null

\* C3: whatever the hook exposes (before, during and after an aggregation,
\* whatever the readers and the badge listing did), its errors map has an
\* entry for each of the five declared keys: null or an Error.
QueryErrorsComplete ==
    \A key \in DEFAULT_ERROR_KEYS :
        /\ key \in DOMAIN combinedErrors
        /\ combinedErrors[key] = NoError \/ IsError(combinedErrors[key])

QueryErrorsCompleteWitness ==
    /\ QueryAggregated
    /\ badgeStatus = "error"
    /\ combinedErrors["badge:graphQL"] = CodeError("timeout")
    /\ combinedErrors["babt:bscMainnet"] # NoError
    /\ combinedErrors["badge:polygon"] = NoError

\* C4: after an aggregation for a present owner, a badge source whose
\* contract list is empty is reported with its default (absent) value and a
\* null error, and no network read was issued for it.
QueryEmptySourceIsDefault ==
    \A key \in BadgeKeys :
        (QueryAggregated /\ Len(TaskContracts(key, badgeInsights)) = 0) =>
            /\ QueryBalances[key] = NullValue
            /\ QueryErrors[key] = NoError
            /\ qReadsIssued[key] = 0

RejectedTasks == {key \in TaskKeys : qTasks[key].status = "rejected"}

\* C5: when exactly one task's reader failed and all others succeeded, the
\* aggregation's errors map has exactly one non-null entry, under the
\* failing task's key; that task's value is still its default and every
\* other task's value is what its reader returned.
QueryOneFailure ==
    (QueryAggregated /\ Cardinality(RejectedTasks) = 1) =>
        /\ {key \in DOMAIN QueryErrors : QueryErrors[key] # NoError} = RejectedTasks
        /\ \A key \in RejectedTasks :
              /\ QueryBalances[key] = DEFAULT_BALANCES[key]
              /\ QueryErrors[key] = normalizeError(qTasks[key].reason)
        /\ \A key \in TaskKeys \ RejectedTasks :
              QueryBalances[key] = Some(qTasks[key].value)

QueryOneFailureWitness ==
    /\ QueryAggregated
    /\ RejectedTasks = {"babt:bscTestnet"}
    /\ qTasks["babt:bscTestnet"].reason = ReadError("revert", 1)
    /\ QueryBalances["babt:bscMainnet"] = Some(0)
    /\ QueryBalances["badge:bsc"] = Some(2)
    /\ QueryBalances["badge:polygon"] = Some(1)

\* C6: every readBalance task applies the retry policy: its error is
\* recorded only after its reader was invoked 3 times.
QueryTasksRetry ==
    \A key \in BabtKeys :
        (QueryAggregated /\ QueryErrors[key] # NoError /\ qReadsIssued[key] > 0)
            => qReadsIssued[key] = QUERY_RETRY

\* ------------------------------------------------------ readBadgeBalances
RECURSIVE SumOfValues(_, _)
SumOfValues(results, indexes) ==
    IF indexes = {} THEN 0
    ELSE LET n == CHOOSE m \in indexes : TRUE
         IN results[n].value + SumOfValues(results, indexes \ {n})

FulfilledReads == {n \in 1..Len(rbResults) : rbResults[n].status = "fulfilled"}

\* C10: over a non-empty contract list readBadgeBalances succeeds exactly
\* when at least one contract read succeeded; its value is then the sum of
\* the values of the reads that succeeded, and it reports no error.
ReadBadgeSumsSuccesses ==
    (rbPc = "settled" /\ Len(rbContracts) > 0) =>
        /\ rbOutcome.status = "fulfilled" <=> FulfilledReads # {}
        /\ FulfilledReads # {} => rbOutcome = Fulfilled(SumOfValues(rbResults, FulfilledReads))

ReadBadgeSumsSuccessesWitness ==
    /\ rbPc = "settled"
    /\ Len(rbResults) = 3
    /\ rbResults[1].status = "rejected"
    /\ rbResults[2] = Fulfilled(1)
    /\ rbResults[3] = Fulfilled(1)
    /\ rbOutcome = Fulfilled(2)

\* C11: when every read of a call failed, readBadgeBalances rejects with the
\* (normalized) error of the read of the first contract of the list, in
\* whatever order the reads settled.
ReadBadgeFirstErrorByIssueOrder ==
    (rbPc = "settled" /\ Len(rbResults) > 0 /\ AllRejected(rbResults)) =>
        rbOutcome = Rejected(normalizeError(rbResults[1].reason))

ReadBadgeFirstErrorByIssueOrderWitness ==
    /\ rbPc = "settled"
    /\ Len(rbResults) = 3
    /\ AllRejected(rbResults)
    /\ rbSettleOrder = <<3, 2, 1>>
    /\ rbResults[1].reason = ReadError("revert", 1)
    /\ rbResults[3].reason = ReadError("rpc", 3)
    /\ rbOutcome = Rejected(ReadError("revert", 1))

\* --------------------------------------------- fetchMultiChainBABTBalance
\* Every invocation of a chain's reader failed, the last one allowed included.
FbExhausted(chain) ==
    /\ Len(fbAttempts[chain]) = DEFAULT_RETRIES
    /\ AllRejected(fbAttempts[chain])

FbSibling(chain) == IF chain = "bsc" THEN "bscTestnet" ELSE "bsc"

FbDelivered(chain) == IF chain = "bsc" THEN fbOutcome.value.bscMainnet
                      ELSE fbOutcome.value.bscTestnet

\* C9: with both chains configured, once the call has settled, a chain whose
\* reader failed on every attempt has not kept the other chain from being
\* read, and the value the other chain's reader returned is in the result
\* the caller gets.
FetchBabtSiblingSurvives ==
    \A chain \in BabtChains :
        (fbPc = "settled" /\ fbAddressBook = BabtChains /\ FbExhausted(chain)) =>
            LET reads == fbAttempts[FbSibling(chain)] IN
              /\ reads # <<>>
              /\ reads[Len(reads)].status = "fulfilled" =>
                    /\ fbOutcome.status = "fulfilled"
                    /\ FbDelivered(FbSibling(chain)) = reads[Len(reads)].value

\* ------------------------------------------------- both aggregating hooks
\* A finished refetch of the useState-based hook for a present owner.
StateAggregated ==
    /\ sPc = "idle"
    /\ sAddress # Null
    /\ \A src \in Sources : sFetch[src].pc = "done"

\* C1: for a present owner, whatever the readers did, the aggregation ends
\* normally: queryFn never rejects (useQuery never sees a failure to retry
\* or to store) and refetch ends with isFetching cleared; a source whose
\* reader failed has its error in its own slot, and every other source has
\* the value its reader returned and no error.
AggregationIsolatesFailures ==
    /\ qPc \notin {"retry", "error"}
    /\ qFailureCount = 0
    /\ QueryAggregated =>
          \A key \in TaskKeys :
              IF qTasks[key].status = "rejected"
                THEN /\ QueryErrors[key] = normalizeError(qTasks[key].reason)
                     /\ QueryBalances[key] = DEFAULT_BALANCES[key]
                ELSE /\ QueryErrors[key] = NoError
                     /\ QueryBalances[key] = Some(qTasks[key].value)
    /\ StateAggregated =>
          /\ ~isFetching
          /\ \A src \in Sources :
                IF sFetch[src].outcome.status = "rejected"
                  THEN balanceState[src] = [value |-> 0, isLoading |-> FALSE,
                                            error |-> sFetch[src].outcome.reason]
                  ELSE balanceState[src] = [value |-> sFetch[src].outcome.value,
                                            isLoading |-> FALSE, error |-> NoError]

AggregationIsolatesFailuresWitness ==
    /\ StateAggregated
    /\ sFetch["bscMainnet"].outcome = Fulfilled(1)
    /\ sFetch["bscTestnet"].outcome.status = "rejected"
    /\ sFetch["bscTestnet"].calls = DEFAULT_RETRIES
    /\ balanceState["bscMainnet"].value = 1
    /\ balanceState["bscTestnet"].error = ReadError("rpc", 3)
    /\ balanceState["polygonBadge"].error = NoError

\* C2: without an owner address the aggregation gives the defaults and reads
\* nothing: queryFn, when it runs, returns DEFAULT_BALANCES and
\* DEFAULT_ERRORS without building a task, and refetch returns before it
\* calls fetchContractBalance, so the slots keep their initial value.
AbsentOwnerIsDefault ==
    /\ (qPc # "unmounted" /\ address = Null) =>
          /\ qData \in {<<>>, <<[balances |-> DEFAULT_BALANCES, errors |-> DEFAULT_ERRORS]>>}
          /\ HookBalances = DEFAULT_BALANCES
          /\ \A key \in TaskKeys : combinedErrors[key] = NoError
          /\ qTasks = NoTasks
          /\ qReadsIssued = NoReads
    /\ (sPc # "unmounted" /\ sAddress = Null) =>
          /\ balanceState = [src \in Sources |-> ZeroBalance]
          /\ ~isFetching
          /\ sFetch = NoFetches
          /\ cache = EmptyCache

AbsentOwnerIsDefaultWitness ==
    /\ address = Null
    /\ qPc = "success"
    /\ badgeStatus = "success"
    /\ badgeInsights.contracts.bsc # <<>>
    /\ clients = Chains
    /\ qData = <<[balances |-> DEFAULT_BALANCES, errors |-> DEFAULT_ERRORS]>>

\* ----------------------------------------------------------- the query key
\* The contracts an aggregation over a listing reads, by chain: the listed
\* ones, and on polygon the fallback contract when none is listed.
ContractsInPlay(badges) ==
    [polygon |-> IF ContractsOn(badges, "polygon") = {}
                   THEN {BADGE_CONTRACT_ADDRESS} ELSE ContractsOn(badges, "polygon"),
     bsc |-> ContractsOn(badges, "bsc")]

BothKeysBuilt == queryKeys # <<>> /\ queryKeys[1] # <<>> /\ queryKeys[2] # <<>>

\* C16: two renders for the same owner whose aggregations read different
\* sets of polygon contracts, or different sets of BSC contracts, have
\* different query keys, so they observe different entries of the query
\* cache.
QueryKeySeparatesContractSets ==
    (BothKeysBuilt /\ ContractsInPlay(keyListings[1]) # ContractsInPlay(keyListings[2]))
        => queryKeys[1] # queryKeys[2]

QueryKeySeparatesContractSetsWitness ==
    /\ BothKeysBuilt
    /\ ContractsInPlay(keyListings[1]) = [polygon |-> {1}, bsc |-> {2}]
    /\ ContractsInPlay(keyListings[2]) = [polygon |-> {1, 2}, bsc |-> {}]
    /\ queryKeys[1] # queryKeys[2]

\* ------------------------------------------------ the useState-based hook
\* What a source of the last refetch adds to a sum: the value it resolved
\* with, and zero when it failed.
SucceededValue(src) ==
    IF sFetch[src].outcome.status = "fulfilled" THEN sFetch[src].outcome.value ELSE 0

\* C12: once a refetch has settled, total.value is the sum of the values of
\* the sources that succeeded, a failed source counting as zero, and
\* polygonBscCombined.value is the same sum over BSC mainnet and the polygon
\* badge.
StateTotalsSumSuccesses ==
    StateAggregated =>
        /\ total.value = SucceededValue("bscMainnet") + SucceededValue("bscTestnet")
                           + SucceededValue("polygonBadge")
        /\ polygonBscCombined.value =
               SucceededValue("bscMainnet") + SucceededValue("polygonBadge")

StateTotalsSumSuccessesWitness ==
    /\ StateAggregated
    /\ sFetch["bscMainnet"].outcome = Fulfilled(1)
    /\ sFetch["bscTestnet"].outcome.status = "rejected"
    /\ sFetch["bscTestnet"].calls = DEFAULT_RETRIES
    /\ sFetch["polygonBadge"].outcome = Fulfilled(1)
    /\ total.value = 2
    /\ polygonBscCombined.value = 2

\* C13: after an aggregation, the value a hook reports for a source whose
\* reader failed is the absent value, never the number zero a source with
\* an empty balance reports: in the useQuery-based hook the key's balance is
\* null, in the useState-based hook the slot's value is not 0.
FailedSourceValueIsAbsent ==
    /\ QueryAggregated =>
          \A key \in TaskKeys :
              qTasks[key].status = "rejected" => QueryBalances[key] = NullValue
    /\ StateAggregated =>
          \A src \in Sources :
              sFetch[src].outcome.status = "rejected" => balanceState[src].value # 0

\* A step in which refetch starts its fetchContractBalance calls.
RefetchStarts == sPc # "fetching" /\ sPc' = "fetching"

\* The sources whose call gets past its guard and finds an entry under its key.
LookedUp == {src \in Sources : ~FetchGuardFails(src) /\ FetchKey(src) \in DOMAIN cache}

\* What one step does to the cache. A lookup of an entry written no more
\* than ttl ago returns the entry's value without a reader call and keeps
\* the entry; a lookup of an older entry deletes it in that step and invokes
\* the reader; and an entry leaves the cache in no other way.
CacheLookupStep ==
    /\ RefetchStarts =>
          \A src \in LookedUp :
              LET entry == cache[FetchKey(src)] IN
                IF now - entry.timestamp <= TTL
                  THEN /\ sFetch'[src] = [pc |-> "done", calls |-> 0,
                                          outcome |-> Fulfilled(entry.value)]
                       /\ FetchKey(src) \in DOMAIN cache'
                       /\ cache'[FetchKey(src)] = entry
                  ELSE /\ sFetch'[src] = [pc |-> "call", calls |-> 1, outcome |-> Pending]
                       /\ FetchKey(src) \notin DOMAIN cache'
    /\ \A key \in DOMAIN cache \ DOMAIN cache' :
          /\ RefetchStarts
          /\ now - cache[key].timestamp > TTL
          /\ \E src \in LookedUp : key = FetchKey(src)

\* C14: BalanceCache under fetchContractBalance: every step of the hook is a
\* CacheLookupStep.
BalanceCacheExpiresOnAccess == [][CacheLookupStep]_vars

\* A second refetch, three ticks after the first: the mainnet entry, written
\* at time 0, has expired and is read again; the testnet entry, written one
\* tick later, is exactly ttl old and is served from the cache.
BalanceCacheExpiresOnAccessWitness ==
    /\ sPc = "fetching"
    /\ refetchCalls = 2
    /\ now = 3 * TickMs
    /\ sFetch["bscMainnet"] = [pc |-> "call", calls |-> 1, outcome |-> Pending]
    /\ FetchKey("bscMainnet") \notin DOMAIN cache
    /\ sFetch["bscTestnet"] = [pc |-> "done", calls |-> 0, outcome |-> Fulfilled(1)]
    /\ FetchKey("bscTestnet") \in DOMAIN cache
    /\ cache[FetchKey("bscTestnet")] = [value |-> 1, timestamp |-> TickMs]

\* C15: a refetch() for a present owner reads every source again: in the
\* refetch that is running or has last settled, the reader of every source
\* that has a client and an address was invoked at least once, whatever the
\* cache held when refetch was called.
RefetchReadsEverySource ==
    (sAddress # Null /\ sPc \in {"fetching", "idle"} /\ refetchCalls > 0) =>
        \A src \in Sources : ~FetchGuardFails(src) => sFetch[src].calls > 0

\* A get call n leaves its read of the store without a failure in this step.
GetReads(n) ==
    /\ n \in Slots
    /\ calls[n].op = "get"
    /\ calls[n].pc = "read"
    /\ calls'[n].pc # "read"
    /\ calls'[n].result.status # "rejected"
\* A get call n that observed an expired entry resolves in this step.
EvictingGetResolves(n) ==
    /\ n \in Slots
    /\ calls[n].op = "get"
    /\ calls[n].entry # NoEntry
    /\ calls[n].result = Pending
    /\ calls'[n].result # Pending
GetHonoursDuration ==
    \A n \in Slots :
        /\ GetReads(n) /\ StoreGet(store, calls[n].id) # NoEntry =>
            LET entry == StoreGet(store, calls[n].id)
            IN IF cacheNow - entry.cachedAt <= CACHE_DURATION_MS
               THEN calls'[n].result = Fulfilled(entry) /\ store' = store
               ELSE calls'[n].result = Pending
        /\ EvictingGetResolves(n) =>
            /\ calls'[n].result = Fulfilled(NoEntry)
            /\ StoreGet(store', calls[n].id) = NoEntry
\* C17: a get of an entry cached at T returns the entry and leaves the store as
\* it is while now - T <= CACHE_DURATION_MS; later than that it does not return
\* the entry, and when it resolves it resolves to null with no entry for the id
\* left in the store.
GetBadgeFromCacheHonoursDuration == [][GetHonoursDuration]_vars
\* One get returned an entry; a later get of the same id, one millisecond past
\* the duration, found that entry and resolved to null with the entry gone.
GetBadgeFromCacheHonoursDurationWitness ==
    \E n, m \in Slots :
        /\ calls[n].op = "get"
        /\ calls[n].result.status = "fulfilled"
        /\ calls[n].result.value # NoEntry
        /\ calls[m].op = "get"
        /\ calls[m].entry = calls[n].result.value
        /\ calls[m].result = Fulfilled(NoEntry)
        /\ cacheNow - calls[m].entry.cachedAt = CACHE_DURATION_MS + 1
        /\ StoreGet(store, calls[m].id) = NoEntry

\* A set call n has its put succeed in this step.
SetStores(n) ==
    /\ n \in Slots
    /\ calls[n].op = "set"
    /\ calls[n].result = Pending
    /\ calls'[n].result.status = "fulfilled"
\* A delete of id succeeds in this step, asked for by an invalidate call or by the
\* eviction of a get call.
DeleteRuns(id) ==
    \E n \in Slots :
        /\ calls[n].id = id
        /\ calls[n].pc \in {"delete", "evictDelete"}
        /\ calls'[n].pc = "done"
        /\ calls'[n].result.status = "fulfilled"
OneEntryPerId == \A e1, e2 \in store : e1.id = e2.id => e1 = e2
SetUpserts ==
    /\ \A n \in Slots : SetStores(n) =>
        /\ calls[n].entry \in store'
        /\ \A e \in store' : e.id = calls[n].id => e = calls[n].entry
        /\ \A e \in store : e.id # calls[n].id => e \in store'
    /\ \A id \in BadgeIds : StoreGet(store', id) # StoreGet(store, id) =>
        \/ \E n \in Slots : SetStores(n) /\ calls[n].id = id
        \/ DeleteRuns(id) /\ StoreGet(store', id) = NoEntry
    /\ \A n \in Slots :
        GetReads(n) /\ calls'[n].result.status = "fulfilled"
                /\ calls'[n].result.value # NoEntry =>
            calls'[n].result.value = StoreGet(store, calls[n].id)
\* C18: the store never holds two entries of one id; a successful set leaves
\* exactly its own entry (metadata, payload, timestamp) for its id, whatever was
\* there before, and the entries of other ids alone; the entry of an id changes
\* only by a successful set or a delete of that id; and a get that returns an
\* entry returns the one in the store, that of the latest successful set.
SetBadgeInCacheUpserts == []OneEntryPerId /\ [][SetUpserts]_vars
\* Two sets of one id succeeded, the second more than the cache duration after
\* the first and with another name and payload; the store holds the second entry
\* alone, and a get returned it.
SetBadgeInCacheUpsertsWitness ==
    \E n1, n2, g \in Slots :
        /\ calls[n1].op = "set" /\ calls[n1].result = Fulfilled(Void)
        /\ calls[n2].op = "set" /\ calls[n2].result = Fulfilled(Void)
        /\ calls[n1].id = calls[n2].id
        /\ calls[n2].entry.cachedAt - calls[n1].entry.cachedAt > CACHE_DURATION_MS
        /\ calls[n2].entry.name # calls[n1].entry.name
        /\ calls[n2].entry.imageBlob # calls[n1].entry.imageBlob
        /\ store = {calls[n2].entry}
        /\ calls[g].op = "get"
        /\ calls[g].result = Fulfilled(calls[n2].entry)

\* An invalidate call n has its delete succeed in this step.
InvalidateResolves(n) ==
    /\ n \in Slots
    /\ calls[n].op = "invalidate"
    /\ calls[n].result = Pending
    /\ calls'[n].result.status = "fulfilled"
InvalidateDeletes ==
    /\ \A n \in Slots : InvalidateResolves(n) =>
        /\ calls'[n].result = Fulfilled(Void)
        /\ StoreGet(store', calls[n].id) = NoEntry
        /\ store' = {e \in store : e.id # calls[n].id}
    /\ \A id \in BadgeIds :
        StoreGet(store, id) = NoEntry /\ StoreGet(store', id) # NoEntry =>
            \E n \in Slots : SetStores(n) /\ calls[n].id = id
    /\ \A n \in Slots :
        GetReads(n) /\ StoreGet(store, calls[n].id) = NoEntry =>
            calls'[n].result = Fulfilled(NoEntry)
\* C19: when an invalidate resolves, its id has no entry, whatever was there
\* before (a valid entry, an expired one, or none), and the entries of the other
\* ids are what they were; an id without entry gets one only by a successful
\* set, and until then a get of it resolves to null.
InvalidateBadgeCacheDeletes == [][InvalidateDeletes]_vars
\* Entries of two ids were stored and the first id was invalidated: the other
\* entry is the only one left.
InvalidateBadgeCacheDeletesWitness ==
    \E n1, n2, i \in Slots :
        /\ calls[n1].op = "set" /\ calls[n1].result = Fulfilled(Void)
        /\ calls[n2].op = "set" /\ calls[n2].result = Fulfilled(Void)
        /\ calls[n1].id # calls[n2].id
        /\ calls[i].op = "invalidate" /\ calls[i].result = Fulfilled(Void)
        /\ calls[i].id = calls[n1].id
        /\ store = {calls[n2].entry}

\* The calls of one kind a load has made.
CallsOf(k, op) ==
    {n \in Slots : calls[n].op = op
                   /\ \E i \in 1..Len(loads[k].callsMade) : loads[k].callsMade[i] = n}
\* The first getBadgeFromCache of a load.
FirstGet(k) == CHOOSE n \in CallsOf(k, "get") : \A m \in CallsOf(k, "get") : n <= m
\* A load of a mounted component comes to its end in this step.
Resolves(k) ==
    /\ k \in LoadIds
    /\ Live(k)
    /\ loads[k].pc \notin {"done", "crashed"}
    /\ loads'[k].pc = "done"
\* The load found no entry for its id, nothing it called failed, and nobody
\* invalidated the id.
ResolvedFromRemote(k) ==
    /\ calls[FirstGet(k)].result = Fulfilled(NoEntry)
    /\ calls[FirstGet(k)].entry = NoEntry
    /\ \A n \in Slots : calls[n].id = loads[k].badgeId => calls[n].op # "invalidate"
    /\ \A i \in 1..Len(loads[k].callsMade) :
            calls[loads[k].callsMade[i]].result.status = "fulfilled"
\* The load asked for no refresh and its get returned an entry.
ResolvedFromCache(k) ==
    /\ ~loads[k].shouldRefresh
    /\ calls[FirstGet(k)].result.status = "fulfilled"
    /\ calls[FirstGet(k)].result.value # NoEntry
ResolveStep ==
    \A k \in LoadIds :
        /\ Resolves(k) /\ ResolvedFromRemote(k) =>
            /\ loads[k].fetched
            /\ \E n \in CallsOf(k, "set") :
                    /\ calls[n].result = Fulfilled(Void)
                    /\ calls[n].entry.id = loads[k].badgeId
            /\ data'.id = loads[k].badgeId
            /\ data'.localImageUrl # NoHandle
            /\ data'.isCacheHit = FALSE
            /\ isLoading' = FALSE
        /\ Resolves(k) /\ ResolvedFromCache(k) =>
            /\ ~loads[k].fetched
            /\ CallsOf(k, "set") = {}
            /\ data'.id = loads[k].badgeId
            /\ data'.localImageUrl # NoHandle
            /\ data'.isCacheHit = TRUE
            /\ isLoading' = FALSE
FetchOnlyOnMiss ==
    \A k \in LoadIds :
        loads[k].fetched \/ CallsOf(k, "set") # {} =>
            /\ loads[k].fetched
            /\ calls[FirstGet(k)].result = Fulfilled(NoEntry)
CallOver(n) == calls[n].pc \in {"done", "stuck"}
\* C23: a call whose store step failed has rejected: no call that has nothing
\* left to do is still pending (and none that failed has resolved).
StoreFailuresAreRejections ==
    \A n \in Slots : CallOver(n) => calls[n].result # Pending

\* The entry of a get call's id that the store holds now is within the cache
\* duration.
FreshInStore(n) ==
    /\ StoreGet(store, calls[n].id) # NoEntry
    /\ cacheNow - StoreGet(store, calls[n].id).cachedAt <= CACHE_DURATION_MS
EvictionSparesFresh ==
    \A n \in Slots :
        EvictingGetResolves(n) /\ FreshInStore(n) =>
            StoreGet(store', calls[n].id) = StoreGet(store, calls[n].id)
\* C27: the delete of a lazy eviction never removes an entry that is within the
\* cache duration (one that a set stored after the get had read the expired
\* entry).
LazyEvictionSparesFreshEntry == [][EvictionSparesFresh]_vars

\* Every entry in the store is the whole entry of one successful set call: its
\* metadata, the payload fetched for it and the timestamp taken with it.
EntriesWhole ==
    \A e \in store :
        \E n \in Slots :
            /\ calls[n].op = "set"
            /\ calls[n].result = Fulfilled(Void)
            /\ e = calls[n].entry
            /\ e = CachedBadgeEntry(calls[n].badgeData, e.imageBlob, e.cachedAt)
            /\ e.imageBlob \in 1..MaxPayload
            /\ e.cachedAt \in CacheTimes
\* A set call n takes a step that is not a successful put.
SetStepWithoutPut(n) ==
    /\ n \in Slots
    /\ calls[n].op = "set"
    /\ calls'[n] # calls[n]
    /\ calls'[n].result.status # "fulfilled"
\* The set call a load awaited has rejected, and the load ends in this step.
ResolvesAfterFailedSet(k) ==
    /\ Resolves(k)
    /\ calls[Awaited(k)].op = "set"
    /\ calls[Awaited(k)].result.status = "rejected"
FailureStep ==
    /\ \A n \in Slots : SetStepWithoutPut(n) => store' = store
    /\ \A k \in LoadIds : ResolvesAfterFailedSet(k) =>
        /\ data'.localImageUrl = NoHandle
        /\ isLoading' = FALSE
        /\ \A e \in store' : e \in store
\* C21: the store holds whole entries of successful sets only; a set call
\* changes the store in no step but its successful put, so a failed image fetch
\* or a failed put leaves the store as it was; and a load whose set failed ends
\* with an empty localImageUrl and isLoading = false.
FailuresLeaveNoEntry == []EntriesWhole /\ [][FailureStep]_vars
\* A load of a mounted component has ended after the image fetch of its set
\* failed: the store is empty, the URL exposed is empty, isLoading is false.
FailuresLeaveNoEntryWitness ==
    \E k \in LoadIds :
        /\ Live(k)
        /\ loads[k].pc = "done"
        /\ calls[Awaited(k)].op = "set"
        /\ calls[Awaited(k)].result = Rejected(FetchImageError)
        /\ store = {}
        /\ data.localImageUrl = NoHandle
        /\ isLoading = FALSE

\* URL.revokeObjectURL has been called on the handle.
IsRevoked(url) == \E i \in 1..Len(revoked) : revoked[i] = url
\* C28: the localImageUrl a mounted component exposes is empty or a handle that
\* has not been revoked.
ExposedHandleIsLive ==
    hMounted /\ data.localImageUrl # NoHandle => ~IsRevoked(data.localImageUrl)

\* Every load has settled: no completion is left that could mint or hand over a
\* handle.
AllLoadsAtRest == \A k \in LoadIds : AtRest(k)
\* C22: once the consumer has unmounted and every load has settled, every
\* handle minted by blobToLocalUrl has been revoked.
MintedHandlesAreRevoked ==
    ~hMounted /\ AllLoadsAtRest => \A url \in 1..minted : IsRevoked(url)

\* ------------------------------- the useState-based hook, overlapping calls
\* `await Promise.all` of call n returns in this step.
RunSettles(n) == RunAwaiting(n) /\ runs'[n].pc = "settled"

StaleSettleIsNoOp ==
    \A n \in RunIds : RunSettles(n) /\ runs[n].owner # sAddress =>
                          balanceState' = balanceState
\* C24: a refetch that settles after the owner has changed leaves the three
\* balances as they are.
SupersededRefetchIsNoOp == [][StaleSettleIsNoOp]_vars

SomeRunAwaiting == \E n \in RunIds : RunAwaiting(n)
\* C25: isFetching is true while a refetch is in flight; once every refetch
\* has settled it is false and no source is loading.
IsFetchingTracksRefetches ==
    /\ SomeRunAwaiting => isFetching
    /\ ~SomeRunAwaiting /\ sPc = "idle" =>
           ~isFetching /\ \A src \in Sources : ~balanceState[src].isLoading

\* The read of a source of call n returned value v (no guard, no cache hit).
ReadReturned(n, src, v) ==
    /\ runs[n].fetch[src].calls > 0
    /\ runs[n].fetch[src].outcome = Fulfilled(v)
\* Every entry holds the value a read returned for its key.
CacheHoldsReads ==
    \A key \in DOMAIN cache :
        \E n \in 1..Len(runs), src \in Sources :
            RunKey(n, src) = key /\ ReadReturned(n, src, cache[key].value)
\* An entry appears or changes only in the step in which a read for its key
\* returns; a failing read and a call past the guard write nothing.
CacheWriteStep ==
    \A key \in DOMAIN cache' :
        key \notin DOMAIN cache \/ cache'[key] # cache[key] =>
            \E n \in 1..Len(runs), src \in Sources :
                /\ RunKey(n, src) = key
                /\ runs[n].fetch[src].pc = "call"
                /\ runs'[n].fetch[src].outcome = Fulfilled(cache'[key].value)
\* What a call started in this step has from the cache was read for its owner.
CacheHitStep ==
    Len(runs') > Len(runs) =>
        LET new == runs'[Len(runs')] IN
          \A src \in Sources :
              ~FetchGuardFails(src) /\ new.fetch[src].pc = "done" =>
                  \E n \in 1..Len(runs) :
                      /\ runs[n].owner = new.owner
                      /\ ReadReturned(n, src, new.fetch[src].outcome.value)
\* C26: BalanceCache holds only values a successful read returned for that
\* key, and a value read for one owner is not returned for another.
CacheHoldsOnlyReadsOfItsKey ==
    []CacheHoldsReads /\ [][CacheWriteStep /\ CacheHitStep]_vars
\* Both owners have an entry for the same source, with different values; a
\* source of the second owner failed and has none; and a call made without an
\* address book entry fulfilled with 0 and has none either.
CacheHoldsOnlyReadsOfItsKeyWitness ==
    \E n, m \in 1..Len(runs), src, bad \in Sources :
        /\ runs[n].owner = "0xOwner" /\ runs[m].owner = "0xOther"
        /\ RunKey(n, src) \in DOMAIN cache /\ RunKey(m, src) \in DOMAIN cache
        /\ cache[RunKey(n, src)].value # cache[RunKey(m, src)].value
        /\ runs[m].fetch[bad].outcome.status = "rejected"
        /\ RunKey(m, bad) \notin DOMAIN cache
        /\ \E short \in Sources :
              /\ SourceEntry(short) \notin sAddressBook
              /\ runs[m].fetch[short].calls = 0
              /\ runs[m].fetch[short].outcome = Fulfilled(0)
              /\ RunKey(m, short) \notin DOMAIN cache

====
